---- MODULE Spec2Model ----
(***************************************************************************)
(* Semantic chunking engine of scripts/rag/chunk_documents.py.             *)
(*                                                                         *)
(* A markdown text is a sequence of elements.  A document's content is a   *)
(* sequence of blocks (marker lines, heading lines, body paragraphs, page  *)
(* annotations, horizontal rules) that stand one blank line apart.  Every  *)
(* element has a length in characters and a length in tokens of the        *)
(* cl100k_base encoding, so that both token counters of the code, the      *)
(* tokenizer and the len(text) // 4 fallback, are computed as the code     *)
(* computes them.                                                          *)
(***************************************************************************)
EXTENDS Integers, Sequences, FiniteSets, TLC

\* ------------------------------------------------------------------ bounds
\* Longest document content, in blocks.
MaxLines == 3
\* Longest content whose sections are taken, in lines.
MaxSectionLines == 4
\* Longest inventory of a batch run, in documents.
MaxDocs == 2
\* Longest section whose fragments are merged, in blocks.
MaxFragmentLines == 5
\* Longest run of short lines in a fragment that is split by size.
MaxShortLines == 270
\* Longest list of chunk records of a run of the embedding step.
MaxChunkFiles == 3

\* ------------------------------------------------------- program constants
TargetChunkSize == 1000
ChunkOverlap == 200
MinChunkSize == 400
MinEmitTokens == 200
HashPrefixLen == 8
IdPadWidth == 3
FallbackCharsPerToken == 4

\* ---------------------------------------------------------------- elements
\* k is the kind of the element and n its number or name.  p is the place of
\* a block in the document content it was read from (0 before it is read and
\* for whitespace): no operation of the model reads it, the properties do.
Elem(k, n) == [k |-> k, n |-> n, p |-> 0]
\* '<!-- PageBreak -->'
PB == Elem("PB", 0)
\* '<!-- PageNumber="7" -->'
PN == Elem("PN", 7)
\* '## Page 2'
H2Page == Elem("H2Page", 2)
\* '## Sheet: Costs'
H2Sheet == Elem("H2Sheet", 0)
\* '## Sheet: Specs'
H2Specs == Elem("H2Sheet", 1)
\* '## Email Body'
H2Email == Elem("H2Email", 0)
\* '# Overview'
H1 == Elem("H1", 0)
\* '# Appendix'
H1Appendix == Elem("H1", 1)
\* '### **Scope**'
H3 == Elem("H3", 0)
\* '---'
HR == Elem("HR", 0)
\* 'ok', a line of one short word
W == Elem("W", 0)
\* a body paragraph (one line of prose), n names it in the tables below
T(n) == Elem("T", n)
\* whitespace inside a fragment: "\n\n", "  " and "\n"
NN == Elem("NN", 0)
SP == Elem("SP", 0)
NL == Elem("NL", 0)

\* The body paragraphs of the model: 1 is under the emission floor for the
\* tokenizer and over it for the fallback, 2 is between the floor and the
\* merge threshold, 3 is half the target, 4 is as 3 and holds the text of a
\* special token ('<|endoftext|>'), which encoding.encode refuses.  5, 6 and 7
\* are short paragraphs: 5 has 50 tokens, 6 has 80 and 7 has 450 with the
\* heading line over it ('# Overview', two spaces and a line feed: 4 tokens).
\* 8 is one line just under the target for both counters.
Paragraphs == 1..4
ParaChars(n) ==
  CASE n = 1 -> 900 [] n = 2 -> 1900 [] n = 3 -> 2001 [] n = 5 -> 200 [] n = 6 -> 304
    [] n = 7 -> 1784 [] n = 8 -> 3999 [] OTHER -> 2001
ParaToks(n) ==
  CASE n = 1 -> 190 [] n = 2 -> 450 [] n = 3 -> 500 [] n = 5 -> 50 [] n = 6 -> 76
    [] n = 7 -> 446 [] n = 8 -> 960 [] OTHER -> 500
ParaSpecial(n) == n = 4

Blocks == {PB, PN, H2Page, H2Sheet, H1, H3, HR} \cup {T(n) : n \in Paragraphs}

\* A line of a context header is an element with the words of the line.
Line(k, words) == [k |-> k, n |-> 0, p |-> 0, words |-> words]
IsLine(e) == e.k \in {"Document", "Section", "Location"}
RECURSIVE WordsChars(_)
WordsChars(words) == IF words = <<>> THEN 0 ELSE Len(Head(words)) + WordsChars(Tail(words))

IsSpace(e) == e.k \in {"NN", "SP", "NL"}

\* len() of one element
ElemChars(e) ==
  CASE e.k = "PB" -> 18
    [] e.k = "PN" -> 23
    [] e.k = "H2Page" -> 9
    [] e.k = "H2Sheet" -> 15
    [] e.k = "H2Email" -> 13
    [] e.k = "H1" -> 10
    [] e.k = "H3" -> 13
    [] IsLine(e) -> WordsChars(e.words)
    [] e.k = "HR" -> 3
    [] e.k = "W" -> 2
    [] e.k = "T" -> ParaChars(e.n)
    [] e.k = "NN" -> 2
    [] e.k = "SP" -> 2
    [] OTHER -> 1

\* tokens of one element under cl100k_base
ElemToks(e) ==
  CASE e.k = "PB" -> 6
    [] e.k = "PN" -> 9
    [] e.k = "H2Page" -> 4
    [] e.k = "H2Sheet" -> 5
    [] e.k = "H2Email" -> 4
    [] e.k = "H1" -> 3
    [] e.k = "H3" -> 5
    [] IsLine(e) -> Len(e.words) + 1
    [] e.k = "HR" -> 1
    [] e.k = "W" -> 1
    [] e.k = "T" -> ParaToks(e.n)
    [] e.k = "NN" -> 1
    [] e.k = "SP" -> 0
    [] OTHER -> 1

\* the sum of f over the members of s (by halves: s may be long)
RECURSIVE SumOver(_, _)
SumOver(f, s) ==
  IF s = <<>> THEN 0
  ELSE IF Len(s) = 1 THEN f[s[1]]
  ELSE SumOver(f, SubSeq(s, 1, Len(s) \div 2)) + SumOver(f, SubSeq(s, Len(s) \div 2 + 1, Len(s)))

\* len(text)
Chars(text) == SumOver([e \in {text[i] : i \in 1..Len(text)} |-> ElemChars(e)], text)
\* len(encoding.encode(text)), for a text the encoding accepts
Toks(text) == SumOver([e \in {text[i] : i \in 1..Len(text)} |-> ElemToks(e)], text)
\* the text holds a special token: encoding.encode(text) raises ValueError
HasSpecial(text) == \E i \in 1..Len(text) : text[i].k = "T" /\ ParaSpecial(text[i].n)

\* text.strip()
RECURSIVE LStrip(_)
LStrip(text) == IF text # <<>> /\ IsSpace(Head(text)) THEN LStrip(Tail(text)) ELSE text
RECURSIVE RStrip(_)
RStrip(text) ==
  IF text # <<>> /\ IsSpace(text[Len(text)])
  THEN RStrip(SubSeq(text, 1, Len(text) - 1)) ELSE text
Strip(text) == RStrip(LStrip(text))

\* sep.join(parts)
RECURSIVE Join(_, _)
Join(sep, parts) ==
  IF parts = <<>> THEN <<>>
  ELSE IF Len(parts) = 1 THEN parts[1]
  ELSE parts[1] \o sep \o Join(sep, Tail(parts))

\* A document content as the string the code receives: its blocks, one
\* blank line apart.
AsText(blocks) == Join(<<NN>>, [i \in 1..Len(blocks) |-> <<blocks[i]>>])

\* The blocks of a content, each with its place in the content.
Placed(blocks) == [i \in 1..Len(blocks) |-> [blocks[i] EXCEPT !.p = i]]

\* the blocks of a text, its whitespace dropped
BlocksOf(text) == SelectSeq(text, LAMBDA e : ~IsSpace(e))

\* the members of ss one after the other (by halves: ss may be long)
RECURSIVE Flatten(_)
Flatten(ss) ==
  IF ss = <<>> THEN <<>>
  ELSE IF Len(ss) = 1 THEN ss[1]
  ELSE Flatten(SubSeq(ss, 1, Len(ss) \div 2)) \o Flatten(SubSeq(ss, Len(ss) \div 2 + 1, Len(ss)))

\* ------------------------------------------------------------ count_tokens
\* The environment of a call: whether tiktoken.get_encoding succeeds, and
\* whether MarkdownHeaderTextSplitter.split_text raises.
Tokenizers == {"ok", "unavailable"}
Envs == [tok : Tokenizers, hdrFail : BOOLEAN]

FallbackCount(text) == Chars(text) \div FallbackCharsPerToken

count_tokens(text, env) ==
  IF env.tok = "ok" /\ ~HasSpecial(text) THEN Toks(text) ELSE FallbackCount(text)

\* ------------------------------------------------------------- file names
\* A path is a sequence of parts; str.replace(part, '') drops every
\* occurrence of a part and str.endswith compares the last part.
ExtractionDir == "output/extraction_results/"
MarkdownSuffix == "_markdown.md"
Remove(path, part) == SelectSeq(path, LAMBDA x : x # part)
Lower(part) == IF part = ".PDF" THEN ".pdf" ELSE part
EndsWith(path, exts) == path # <<>> /\ Lower(path[Len(path)]) \in exts

\* The document paths of the model: the extraction output of report.pdf as
\* save_extraction names it (the stem, without extension), and paths that
\* keep the extension of the original file.
DocPaths ==
  { <<ExtractionDir, "report", MarkdownSuffix>>,
    <<ExtractionDir, "report", ".pdf", MarkdownSuffix>>,
    <<ExtractionDir, "costs", ".xlsx", MarkdownSuffix>>,
    <<ExtractionDir, "unit", "_", "costs", ".csv", MarkdownSuffix>> }

\* chunk_document, line 376
SourceFileOf(doc_path) == Remove(Remove(doc_path, MarkdownSuffix), ExtractionDir)

\* --------------------------------------------------------------- locations
\* A location label is a pair of strings: f"Page {n}" is <<"Page ", str(n)>>.
Str(n) ==
  CASE n = 0 -> "0" [] n = 1 -> "1" [] n = 2 -> "2" [] n = 3 -> "3" [] n = 4 -> "4"
    [] n = 5 -> "5" [] n = 6 -> "6" [] n = 7 -> "7" [] n = 8 -> "8" [] OTHER -> "9"
PageLabel(n) == <<"Page ", Str(n)>>
SheetName(n) == IF n = 0 THEN "Costs" ELSE "Specs"
SheetLabel(name) == <<"Sheet: ", name>>
EmailLabel == <<"Email ", "Body">>
DefaultPageLabel == <<"Page ", "1">>
DefaultSectionAsPage == <<"Page ", "1">>
DefaultSectionLabel == <<"Section ", "1">>

\* ------------------------------------------------ _split_by_di_page_breaks
\* content.split(marker): the pieces between the markers, empty ones kept
RECURSIVE SplitOnPageBreak(_)
SplitOnPageBreak(content) ==
  IF \E i \in 1..Len(content) : content[i].k = "PB"
  THEN LET i == CHOOSE i \in 1..Len(content) :
                  content[i].k = "PB" /\ \A j \in 1..(i - 1) : content[j].k # "PB"
       IN <<SubSeq(content, 1, i - 1)>> \o SplitOnPageBreak(SubSeq(content, i + 1, Len(content)))
  ELSE <<content>>

\* re.search of the PageNumber annotation: the number of the first one
\* the annotation is not read
PageNumberByIndex(page, i) == i
PageNumberOf(page, i) ==
  IF \E j \in 1..Len(page) : page[j].k = "PN"
  THEN (page[CHOOSE j \in 1..Len(page) :
               page[j].k = "PN" /\ \A l \in 1..(j - 1) : page[l].k # "PN"]).n
  ELSE i

\* re.sub of the page annotations and the whitespace after them
CleanPage(page) == SelectSeq(page, LAMBDA e : e.k # "PN")

Section(location, text) == [location |-> location, text |-> text]

RECURSIVE DiSections(_, _)
DiSections(pages, i) ==
  IF i > Len(pages) THEN <<>>
  ELSE LET page == pages[i]
           rest == DiSections(pages, i + 1)
       IN IF page = <<>> THEN rest
          ELSE IF CleanPage(page) = <<>> THEN rest
          ELSE <<Section(PageLabel(PageNumberOf(page, i)), CleanPage(page))>> \o rest

split_by_di_page_breaks(content) == DiSections(SplitOnPageBreak(content), 1)

\* ---------------------------------------------- split_by_document_sections
is_pdf(source_file) == EndsWith(source_file, {".pdf"})
is_excel(source_file) == EndsWith(source_file, {".xlsx", ".xls", ".csv"})
is_email(source_file) == EndsWith(source_file, {".msg"})

\* the pattern chosen for the source type matches the line
IsMarker(source_file, e) ==
  IF is_pdf(source_file) THEN e.k = "H2Page"
  ELSE IF is_excel(source_file) THEN e.k = "H2Sheet"
  ELSE IF is_email(source_file) THEN e.k = "H2Email"
  ELSE e.k \in {"H2Page", "H2Sheet", "H2Email"}

\* extract_id: the label of a matched line (for the generic pattern the
\* heading text, which for these lines is the same string)
extract_id(e) ==
  CASE e.k = "H2Page" -> PageLabel(e.n)
    [] e.k = "H2Sheet" -> SheetLabel(SheetName(e.n))
    [] OTHER -> EmailLabel

\* the two re.sub of the '---' separators, lines 179 and 180
StripLeadingRule(text) == IF text # <<>> /\ Head(text).k = "HR" THEN Tail(text) ELSE text
StripTrailingRule(text) ==
  IF text # <<>> /\ text[Len(text)].k = "HR" THEN SubSeq(text, 1, Len(text) - 1) ELSE text

\* The positions of the markers, in the order of the content.
MarkerPositions(content, source_file) ==
  {i \in 1..Len(content) : IsMarker(source_file, content[i])}

\* the start of the section after the marker at `start`
\* the section starts with the marker line
SectionStartAtMarker(start) == start
SectionStart(start) == start + 1

RECURSIVE MarkerSections(_, _, _)
MarkerSections(content, source_file, from) ==
  LET later == {i \in MarkerPositions(content, source_file) : i >= from}
  IN IF later = {} THEN <<>>
     ELSE LET m == CHOOSE i \in later : \A j \in later : i <= j
              after == {i \in later : i > m}
              end == IF after = {} THEN Len(content)
                     ELSE (CHOOSE i \in after : \A j \in after : i <= j) - 1
              text == StripTrailingRule(StripLeadingRule(SubSeq(content, SectionStart(m), end)))
              rest == MarkerSections(content, source_file, m + 1)
          IN IF text # <<>> THEN <<Section(extract_id(content[m]), text)>> \o rest ELSE rest

split_by_document_sections(content, source_file) ==
  IF is_pdf(source_file) /\ (\E i \in 1..Len(content) : content[i].k = "PB")
  THEN split_by_di_page_breaks(content)
  ELSE IF MarkerPositions(content, source_file) = {}
  THEN <<Section(IF is_pdf(source_file) THEN DefaultPageLabel ELSE DefaultSectionLabel, content)>>
  ELSE MarkerSections(content, source_file, 1)

\* ------------------------------------------- MarkdownHeaderTextSplitter
\* headers_to_split_on, lines 265 to 270: the level of a heading line (0 for
\* any other line), the metadata key of a level and the heading's text
HeaderLevel(e) ==
  IF e.k = "H1" THEN 1 ELSE IF e.k \in {"H2Page", "H2Sheet", "H2Email"} THEN 2
  ELSE IF e.k = "H3" THEN 3 ELSE 0
HeaderKey(level) ==
  CASE level = 1 -> "Header 1" [] level = 2 -> "Header 2"
    [] level = 3 -> "Header 3" [] OTHER -> "Header 4"
KeyLevel(key) ==
  CASE key = "Header 1" -> 1 [] key = "Header 2" -> 2 [] key = "Header 3" -> 3 [] OTHER -> 4
HeaderTitle(e) ==
  CASE e.k = "H1" -> IF e.n = 0 THEN <<"Overview">> ELSE <<"Appendix">>
    [] e.k = "H3" -> <<"**", "Scope", "**">>
    [] e.k = "H2Page" -> <<"Page 2">>
    [] e.k = "H2Email" -> <<"Email Body">>
    [] OTHER -> <<"Sheet: " \o SheetName(e.n)>>

EmptyMetadata == [key \in {} |-> <<>>]

Document(page_content, metadata) == [page_content |-> page_content, metadata |-> metadata]

\* The heading path after a heading line: the headings of its level and of
\* deeper levels leave the stack, and the line's own heading enters it.
MetadataAfter(metadata, e) ==
  LET level == HeaderLevel(e)
      kept == {key \in DOMAIN metadata : KeyLevel(key) < level}
  IN [key \in kept \cup {HeaderKey(level)} |->
        IF key = HeaderKey(level) THEN HeaderTitle(e) ELSE metadata[key]]

\* Every block stands between blank lines, so every block is a line group
\* of its own, with the heading path in force after it.
RECURSIVE LinesWithMetadata(_, _)
LinesWithMetadata(blocks, metadata) ==
  IF blocks = <<>> THEN <<>>
  ELSE LET e == Head(blocks)
           now == IF HeaderLevel(e) > 0 THEN MetadataAfter(metadata, e) ELSE metadata
       IN <<Document(<<e>>, now)>> \o LinesWithMetadata(Tail(blocks), now)

LastBlock(text) == text[Len(text)]

\* aggregate_lines_to_chunks with strip_headers=False: a line group joins
\* the chunk before it if the heading paths are equal, or if that chunk
\* ends with a heading line and the group lies deeper under it.
RECURSIVE AggregateLines(_, _)
AggregateLines(lines, chunks) ==
  IF lines = <<>> THEN chunks
  ELSE LET line == Head(lines)
           n == Len(chunks)
           joined(metadata) ==
             [chunks EXCEPT ![n] =
                Document(chunks[n].page_content \o <<SP, NL>> \o line.page_content, metadata)]
       IN IF n > 0 /\ chunks[n].metadata = line.metadata
          THEN AggregateLines(Tail(lines), joined(line.metadata))
          ELSE IF /\ n > 0
                  /\ Cardinality(DOMAIN chunks[n].metadata) < Cardinality(DOMAIN line.metadata)
                  /\ HeaderLevel(LastBlock(chunks[n].page_content)) > 0
          THEN AggregateLines(Tail(lines), joined(line.metadata))
          ELSE AggregateLines(Tail(lines), Append(chunks, line))

\* markdown_splitter.split_text(section_content)
MarkdownHeaderSplit(blocks) == AggregateLines(LinesWithMetadata(blocks, EmptyMetadata), <<>>)

\* lines 277 to 281
\* a failure of the splitter leaves the section without a fragment
HeaderFailureLosesSection(blocks, env) ==
  IF env.hdrFail THEN <<>> ELSE MarkdownHeaderSplit(blocks)
header_splits(blocks, env) ==
  IF env.hdrFail THEN <<Document(AsText(blocks), EmptyMetadata)>>
  ELSE MarkdownHeaderSplit(blocks)

\* ------------------------------------------------------------ merge pass
\* lines 296 to 301
\* a key of both fragments keeps the title of the running fragment
MergedMetadataKeepingFirst(current, next) ==
  [key \in DOMAIN current \cup DOMAIN next |->
     IF key \in DOMAIN current THEN current[key] ELSE next[key]]
MergedMetadata(current, next) ==
  [key \in DOMAIN current \cup DOMAIN next |->
     IF key \notin DOMAIN current THEN next[key]
     ELSE IF key \in DOMAIN next /\ current[key] # next[key]
     THEN current[key] \o <<" / ">> \o next[key]
     ELSE current[key]]

\* line 294
\* the running fragment is compared with the target size
AbsorbsUnderTarget(current_tokens) == current_tokens < TargetChunkSize
AbsorbsNext(current_tokens) == current_tokens < MinChunkSize

\* lines 290 to 309: the loop from fragment i on, with the running fragment
RECURSIVE MergeFrom(_, _, _, _)
MergeFrom(splits, i, current_section, env) ==
  IF i > Len(splits) THEN <<current_section>>
  ELSE LET next_section == splits[i]
       IN IF AbsorbsNext(count_tokens(current_section.page_content, env))
          THEN MergeFrom(splits, i + 1,
                 Document(current_section.page_content \o <<NN>> \o next_section.page_content,
                          MergedMetadata(current_section.metadata, next_section.metadata)),
                 env)
          ELSE <<current_section>> \o MergeFrom(splits, i + 1, next_section, env)

\* the running fragment left at the end of the loop is not appended
MergedWithoutLast(splits, env) ==
  IF splits = <<>> THEN <<>>
  ELSE LET all == MergeFrom(splits, 2, splits[1], env) IN SubSeq(all, 1, Len(all) - 1)
merged_sections(splits, env) ==
  IF splits = <<>> THEN <<>> ELSE MergeFrom(splits, 2, splits[1], env)

\* ------------------------------------------ RecursiveCharacterTextSplitter
\* token_counter, lines 312 to 316: the length function of the splitter.  It
\* is applied only to texts the encoding accepts (see split_text_raises).
token_counter(text, env) == IF env.tok = "ok" THEN Toks(text) ELSE FallbackCount(text)

\* the lambda of line 314 has no except clause: encoding.encode raises out of
\* the splitter, which measures every piece of the text
split_text_raises(text, env) == env.tok = "ok" /\ HasSpecial(text)

\* A text the model does not split: the separators ". ", " " and "" cut
\* inside a block.
Unmodelled == <<Elem("UNMODELLED", 0)>>

\* "\n\n" read by the second separator is two line feeds
ExpandLineFeeds(text) ==
  Flatten([i \in 1..Len(text) |-> IF text[i].k = "NN" THEN <<NL, NL>> ELSE <<text[i]>>])

\* where separator 1, "\n\n", matches
ParagraphBreaks(text) == {i \in 1..Len(text) : text[i].k = "NN"}
\* where separator 2, "\n(?![|\\-])", matches: a line feed that no table row
\* and no dash follows
LineBreaks(text) ==
  {i \in 1..Len(text) : text[i].k = "NL" /\ (i = Len(text) \/ text[i + 1].k # "HR")}

\* the first separator of the list, from `from` on, that matches
ChosenSeparator(text, from) ==
  IF from <= 1 /\ ParagraphBreaks(text) # {} THEN 1
  ELSE IF from <= 2 /\ LineBreaks(ExpandLineFeeds(text)) # {} THEN 2
  ELSE 3

\* _split_text_with_regex with keep_separator: the text cut before every
\* match, the empty pieces dropped
CutBefore(text, at) ==
  LET cuts == SelectSeq([i \in 1..Len(text) |-> i], LAMBDA i : i \in at)
  IN [j \in 1..(Len(cuts) + 1) |->
        SubSeq(text, IF j = 1 THEN 1 ELSE cuts[j - 1],
                     IF j = Len(cuts) + 1 THEN Len(text) ELSE cuts[j] - 1)]

SplitWithSeparator(text, separator) ==
  LET read == IF separator = 1 THEN text ELSE ExpandLineFeeds(text)
      at == IF separator = 1 THEN ParagraphBreaks(read) ELSE LineBreaks(read)
  IN SelectSeq(CutBefore(read, at), LAMBDA piece : piece # <<>>)

\* _join_docs: "".join(docs).strip(), None for an empty text
JoinDocs(current_doc) ==
  LET text == Strip(Flatten(current_doc)) IN IF text = <<>> THEN <<>> ELSE <<text>>

\* the while loop of _merge_splits that drops pieces from the front of the
\* running chunk until what is left fits the overlap and leaves room for the
\* next piece
RECURSIVE DropForOverlap(_, _, _, _)
DropForOverlap(current_doc, total, len, env) ==
  IF total > ChunkOverlap \/ (total + len > TargetChunkSize /\ total > 0)
  THEN DropForOverlap(Tail(current_doc), total - token_counter(Head(current_doc), env), len, env)
  ELSE [current_doc |-> current_doc, total |-> total]

\* a piece is added to the running chunk unless the sum of the lengths of
\* the pieces would exceed chunk_size
Overflows(total, len) == total + len > TargetChunkSize

\* _merge_splits with the separator "" (keep_separator is set)
RECURSIVE MergeSplits(_, _, _, _)
MergeSplits(splits, current_doc, total, env) ==
  IF splits = <<>> THEN JoinDocs(current_doc)
  ELSE LET d == Head(splits)
           len == token_counter(d, env)
       IN IF Overflows(total, len) /\ current_doc # <<>>
          THEN LET left == DropForOverlap(current_doc, total, len, env)
               IN JoinDocs(current_doc) \o
                  MergeSplits(Tail(splits), Append(left.current_doc, d), left.total + len, env)
          ELSE MergeSplits(Tail(splits), Append(current_doc, d), total + len, env)

\* _split_text: the pieces under chunk_size are merged, a piece of
\* chunk_size or more is split with the separators that follow
RECURSIVE SplitText(_, _, _)
RECURSIVE SplitPieces(_, _, _, _)
SplitText(text, from, env) ==
  LET separator == ChosenSeparator(text, from)
  IN IF separator = 3 THEN <<Unmodelled>>
     ELSE SplitPieces(SplitWithSeparator(text, separator), separator, <<>>, env)
SplitPieces(pieces, separator, good_splits, env) ==
  LET merged == IF good_splits = <<>> THEN <<>> ELSE MergeSplits(good_splits, <<>>, 0, env)
  IN IF pieces = <<>> THEN merged
     ELSE IF token_counter(Head(pieces), env) < TargetChunkSize
     THEN SplitPieces(Tail(pieces), separator, Append(good_splits, Head(pieces)), env)
     ELSE merged \o SplitText(Head(pieces), separator + 1, env)
                 \o SplitPieces(Tail(pieces), separator, <<>>, env)

\* text_splitter.split_text(section_text)
split_text(text, env) == SplitText(text, 1, env)

\* --------------------------------------------------- chunk_section_content
Chunk(content, token_count, metadata, location) ==
  [content |-> content, token_count |-> token_count, metadata |-> metadata,
   location |-> location]

\* line 341
FitsTarget(token_count) == token_count <= TargetChunkSize

\* lines 335 to 356, for one merged fragment
\* the sub-chunks of a fragment over the target start a heading path anew
SectionChunksWithoutPath(section, location, env) ==
  LET section_text == section.page_content
      token_count == count_tokens(section_text, env)
  IN IF FitsTarget(token_count)
     THEN <<Chunk(section_text, token_count, section.metadata, location)>>
     ELSE LET sub_chunks == split_text(section_text, env)
          IN [i \in 1..Len(sub_chunks) |->
                Chunk(sub_chunks[i], count_tokens(sub_chunks[i], env), EmptyMetadata, location)]
SectionChunks(section, location, env) ==
  LET section_text == section.page_content
      token_count == count_tokens(section_text, env)
  IN IF FitsTarget(token_count)
     THEN <<Chunk(section_text, token_count, section.metadata, location)>>
     ELSE LET sub_chunks == split_text(section_text, env)
          IN [i \in 1..Len(sub_chunks) |->
                Chunk(sub_chunks[i], count_tokens(sub_chunks[i], env), section.metadata, location)]

\* the call of split_text for a merged fragment raises
SectionRaises(section, env) ==
  /\ ~FitsTarget(count_tokens(section.page_content, env))
  /\ split_text_raises(section.page_content, env)

\* The result of a call: the list it returns, or the exception it raises.
Returned(chunks) == [raised |-> FALSE, chunks |-> chunks]
Raised == [raised |-> TRUE, chunks |-> <<>>]

chunk_section_content(section_content, location, env) ==
  IF section_content = <<>> THEN Returned(<<>>)
  ELSE LET merged == merged_sections(header_splits(section_content, env), env)
       IN IF \E i \in 1..Len(merged) : SectionRaises(merged[i], env) THEN Raised
          ELSE Returned(Flatten([i \in 1..Len(merged) |-> SectionChunks(merged[i], location, env)]))

\* ---------------------------------------------------------- chunk_document
\* A content hash is a sequence of hexadecimal digits.  Hashes B and C are
\* the hashes of two other contents than A's: B has other leading digits, C
\* has the leading digits of A and differs from A after them.
HashA == <<"3", "f", "a", "0", "1", "b", "7", "c", "9", "d">>
HashB == <<"5", "e", "a", "0", "1", "b", "7", "c", "9", "d">>
HashC == <<"3", "f", "a", "0", "1", "b", "7", "c", "2", "e">>
Hashes == {HashA, HashB, HashC}

Min(a, b) == IF a < b THEN a ELSE b

\* content_hash[:8]
HashPrefix(content_hash) == SubSeq(content_hash, 1, Min(HashPrefixLen, Len(content_hash)))

\* the decimal digits of n, and the format 03d
RECURSIVE Digits(_)
Digits(n) == IF n < 10 THEN <<Str(n)>> ELSE Digits(n \div 10) \o <<Str(n % 10)>>
RECURSIVE ZeroPad(_, _)
ZeroPad(digits, width) ==
  IF Len(digits) >= width THEN digits ELSE ZeroPad(<<"0">> \o digits, width)

\* line 402
\* the id without the zero padding of the counter
ChunkIdUnpadded(content_hash, chunk_counter) ==
  HashPrefix(content_hash) \o <<"_chunk_">> \o Digits(chunk_counter)
ChunkId(content_hash, chunk_counter) ==
  HashPrefix(content_hash) \o <<"_chunk_">> \o ZeroPad(Digits(chunk_counter), IdPadWidth)

\* lines 406 to 412; <<>> is None
NoTitle == <<>>
\* the levels tried from the most general one
TitleOrderByLevel == <<"Header 1", "Header 2", "Header 3", "Header 4">>
TitleOrder == <<"Header 2", "Header 3", "Header 1", "Header 4">>
RECURSIVE FirstTitle(_, _)
FirstTitle(section_hierarchy, order) ==
  IF order = <<>> THEN NoTitle
  ELSE IF Head(order) \in DOMAIN section_hierarchy THEN section_hierarchy[Head(order)]
  ELSE FirstTitle(section_hierarchy, Tail(order))
SectionTitle(section_hierarchy) == FirstTitle(section_hierarchy, TitleOrder)

\* line 399
\* no chunk is filtered
SkippedNever(chunk) == FALSE
Skipped(chunk) == chunk.token_count < MinEmitTokens

\* line 395 and line 434
FirstCounter == 0
NextCounter(chunk_counter) == chunk_counter + 1

\* ------------------------------------------------------ the context header
\* clean_section_title, lines 188 to 198: the emphasis marks leave the title,
\* runs of whitespace become one space, and the ends are stripped
RECURSIVE CollapseSpaces(_)
CollapseSpaces(title) ==
  IF title = <<>> THEN <<>>
  ELSE IF Head(title) = " " /\ (Len(title) = 1 \/ title[2] = " ")
  THEN CollapseSpaces(Tail(title))
  ELSE <<Head(title)>> \o CollapseSpaces(Tail(title))
StripSpace(title) == IF title # <<>> /\ Head(title) = " " THEN Tail(title) ELSE title
clean_section_title(title) ==
  IF title = <<>> THEN title
  ELSE StripSpace(CollapseSpaces(SelectSeq(title, LAMBDA w : w \notin {"**", "*"})))

\* line 217: the name of the document in the header
Replace(name, old, new) == [i \in 1..Len(name) |-> IF name[i] = old THEN new ELSE name[i]]
RemovedExtensions == <<".pdf", ".xlsx", ".msg">>
RECURSIVE RemoveAll(_, _)
RemoveAll(name, parts) ==
  IF parts = <<>> THEN name ELSE RemoveAll(Remove(name, Head(parts)), Tail(parts))
doc_name(source_file) == RemoveAll(Replace(source_file, "_", " "), RemovedExtensions)

\* lines 221 to 226: the cleaned titles of the levels 1 to 4 that have one
HeaderLevels == <<"Header 1", "Header 2", "Header 3", "Header 4">>
RECURSIVE section_parts(_, _)
section_parts(section_hierarchy, levels) ==
  IF levels = <<>> THEN <<>>
  ELSE LET key == Head(levels)
           rest == section_parts(section_hierarchy, Tail(levels))
       IN IF key \in DOMAIN section_hierarchy /\ section_hierarchy[key] # <<>>
             /\ clean_section_title(section_hierarchy[key]) # <<>>
          THEN <<clean_section_title(section_hierarchy[key])>> \o rest
          ELSE rest

\* lines 214 to 235
build_context_prefix(source_file, section_hierarchy, location) ==
  LET titles == section_parts(section_hierarchy, HeaderLevels)
      parts ==
        <<Line("Document", <<"Document: ">> \o doc_name(source_file))>>
        \o (IF titles # <<>>
            THEN <<Line("Section", <<"Section: ">> \o Join(<<" > ">>, titles))>> ELSE <<>>)
        \o (IF location # <<>>
            THEN <<Line("Location", <<"Location: ">> \o location)>> ELSE <<>>)
  IN Join(<<NL>>, [i \in 1..Len(parts) |-> <<parts[i]>>]) \o <<NN>>

\* line 416
enriched_content(chunk, doc_path) ==
  build_context_prefix(SourceFileOf(doc_path), chunk.metadata, chunk.location) \o chunk.content

\* lines 419 to 433, given the enriched content of line 416
Record(chunk, chunk_counter, doc_path, content_hash, enriched, env) ==
  [chunk_id |-> ChunkId(content_hash, chunk_counter),
   content |-> chunk.content,
   enriched_content |-> enriched,
   source_file |-> SourceFileOf(doc_path),
   source_path |-> doc_path,
   location |-> chunk.location,
   chunk_index |-> chunk_counter,
   total_chunks |-> 0,
   token_count |-> chunk.token_count,
   enriched_token_count |-> count_tokens(enriched, env),
   document_hash |-> content_hash,
   section_title |-> SectionTitle(chunk.metadata),
   section_hierarchy |-> chunk.metadata]

\* lines 402 to 433
FinalChunk(chunk, chunk_counter, doc_path, content_hash, env) ==
  Record(chunk, chunk_counter, doc_path, content_hash, enriched_content(chunk, doc_path), env)
\* lines 397 to 434: the loop over all_chunks
RECURSIVE Assemble(_, _, _, _, _)
Assemble(all_chunks, chunk_counter, doc_path, content_hash, env) ==
  IF all_chunks = <<>> THEN <<>>
  ELSE IF Skipped(Head(all_chunks))
  THEN Assemble(Tail(all_chunks), chunk_counter, doc_path, content_hash, env)
  ELSE <<FinalChunk(Head(all_chunks), chunk_counter, doc_path, content_hash, env)>> \o
       Assemble(Tail(all_chunks), NextCounter(chunk_counter), doc_path, content_hash, env)

\* lines 436 to 438
\* the total taken before the filter
TotalChunksUnfiltered(final_chunks, all_chunks) == Len(all_chunks)
TotalChunks(final_chunks, all_chunks) == Len(final_chunks)
WithTotal(final_chunks, all_chunks) ==
  [i \in 1..Len(final_chunks) |->
     [final_chunks[i] EXCEPT !.total_chunks = TotalChunks(final_chunks, all_chunks)]]

\* line 379
SectionsOf(doc_path, content) == split_by_document_sections(content, SourceFileOf(doc_path))

\* lines 382 to 391: the chunks of the sections, one section after the other
\* the texts of the sections are chunked as one text, under the first location
SectionResultsOfJoinedText(sections, env) ==
  IF sections = <<>> THEN <<>>
  ELSE <<chunk_section_content(Flatten([i \in 1..Len(sections) |-> sections[i].text]),
                               sections[1].location, env)>>
SectionResults(sections, env) ==
  [i \in 1..Len(sections) |-> chunk_section_content(sections[i].text, sections[i].location, env)]
\* the chunks of a section put before those of the sections done so far
ExtendAtFront(results) ==
  Flatten([i \in 1..Len(results) |-> results[Len(results) + 1 - i].chunks])
Extend(results) == Flatten([i \in 1..Len(results) |-> results[i].chunks])
Collect(results) ==
  IF \E i \in 1..Len(results) : results[i].raised THEN Raised ELSE Returned(Extend(results))
AllChunks(sections, env) == Collect(SectionResults(sections, env))

\* lines 393 to 440, given the chunks of the sections
FinalChunks(chunks, doc_path, content_hash, env) ==
  WithTotal(Assemble(chunks, FirstCounter, doc_path, content_hash, env), chunks)
Finish(all, doc_path, content_hash, env) ==
  IF all.raised THEN Raised ELSE Returned(FinalChunks(all.chunks, doc_path, content_hash, env))

chunk_document(doc_path, content, content_hash, env) ==
  Finish(AllChunks(SectionsOf(doc_path, content), env), doc_path, content_hash, env)

\* ----------------------------------------------------------------- main
\* generate_report, lines 443 to 464: the counts of the report
generate_report(chunks, documents_processed) ==
  [documents |-> documents_processed,
   chunks |-> Len(chunks),
   locations |-> Cardinality({chunks[i].location : i \in 1..Len(chunks)})]

NoReport == [documents |-> 0 - 1, chunks |-> 0 - 1, locations |-> 0 - 1]

\* storage.write_json(project, f"output/chunked_documents/{chunk_id}.json",
\* chunk): the record under that name is replaced
WriteJson(store, chunk) ==
  [id \in DOMAIN store \cup {chunk.chunk_id} |->
     IF id = chunk.chunk_id THEN chunk ELSE store[id]]

\* lines 498 to 503: the first n chunks of the list are written, in order
RECURSIVE SaveChunks(_, _, _)
SaveChunks(store, chunks, n) ==
  IF n = 0 THEN store
  ELSE WriteJson(SaveChunks(store, chunks, n - 1), chunks[n])

\* --------------------------------------------------------------- the state
VARIABLES
  \* a call of chunk_document and a second call with the same arguments
  doc,        \* the arguments: [path, content, hash]
  dpc,        \* "ready", "called" (once), "recalled" (twice)
  env1,       \* the environment of the first call
  out1,       \* its result, with the sections and the unfiltered chunk list
  env2,       \* the environment of the second call
  out2,       \* its result
  \* a batch run of main
  inventory,  \* inventory['documents']
  pc,         \* "loop", "report", "done"
  idx,        \* the place in the loop of line 479 (1-based)
  storage,    \* the chunk records under output/chunked_documents, by chunk_id
  all_chunks, \* the list all_chunks of main
  report,     \* the report written, NoReport before
  escaped,    \* an exception left main
  outcomes,   \* what happened to each document visited so far
  first_run,  \* storage and outcomes at the end of an earlier run, NotRun before
  \* text_splitter.split_text on one fragment, step by step
  splits_left, \* the pieces of the fragment not yet merged
  doc_pieces,  \* the pieces of the running chunk (current_doc)
  doc_total,   \* the sum of their lengths (total)
  docs_done,   \* the chunks joined so far (docs)
  \* a run of generate_embeddings
  chunk_store,    \* the records under output/chunked_documents, as loaded
  embedded_store, \* the records under output/embedded_documents, by file name
  embedded_before, \* those records as they were when the run began
  embed_chunks,   \* the chunks given to generate_embeddings_batch
  batch_size,     \* its parameter batch_size
  max_retries,    \* its parameter max_retries
  batch_at,       \* the index i of the loop of line 97
  retry_count,    \* retry_count of the batch at i
  processed,      \* the counter processed
  failed,         \* the counter failed
  failed_chunks,  \* the list failed_chunks
  epc,            \* "main", "batch", "returned", or the return main took
  exit_code,      \* what main returns, NoExit before
  sent            \* the calls of client.embeddings.create: batch, ids, outcome

callVars == <<doc, dpc, env1, out1, env2, out2>>
sizeVars == <<splits_left, doc_pieces, doc_total, docs_done>>
batchVars == <<inventory, pc, idx, storage, all_chunks, report, escaped, outcomes, first_run>>
embedVars == <<chunk_store, embedded_store, embedded_before, embed_chunks, batch_size, max_retries, batch_at,
               retry_count, processed, failed, failed_chunks, epc, exit_code, sent>>
docVars == <<callVars, sizeVars, embedVars>>
mainVars == <<batchVars, sizeVars, embedVars>>
vars == <<callVars, sizeVars, batchVars, embedVars>>

\* ------------------------------------------------- inputs of the model
RECURSIVE SeqsUpTo(_, _)
SeqsUpTo(S, n) ==
  IF n = 0 THEN {<<>>}
  ELSE LET shorter == SeqsUpTo(S, n - 1)
       IN shorter \cup {Append(s, x) : s \in {t \in shorter : Len(t) = n - 1}, x \in S}

Contents == {Placed(blocks) : blocks \in SeqsUpTo(Blocks, MaxLines)}

Doc(path, content, hash) == [path |-> path, content |-> content, hash |-> hash]

NoEnv == [tok |-> "ok", hdrFail |-> FALSE]
NoDoc == Doc(<<>>, <<>>, <<>>)
Trace(result, sections, all) ==
  [raised |-> result.raised, chunks |-> result.chunks, sections |-> sections, all_chunks |-> all]
NoOut == Trace(Returned(<<>>), <<>>, <<>>)
NotRun == [ran |-> FALSE, storage |-> <<>>, outcomes |-> <<>>]

\* the result of a call with the sections and the unfiltered chunks it
\* went through (none of them once a section raised)
CallTrace(d, sections, all, env) ==
  Trace(Finish(all, d.path, d.hash, env), sections, all.chunks)
CallOn(d, sections, env) == CallTrace(d, sections, AllChunks(sections, env), env)
Call(d, env) == CallOn(d, SectionsOf(d.path, d.content), env)

NoExit == 0 - 1
SizeIdle == splits_left = <<>> /\ doc_pieces = <<>> /\ doc_total = 0 /\ docs_done = <<>>
EmbedIdle == /\ chunk_store = <<>> /\ embedded_store = <<>> /\ embedded_before = <<>>
             /\ embed_chunks = <<>>
             /\ batch_size = 0 /\ max_retries = 0 /\ batch_at = 0 /\ retry_count = 0
             /\ processed = 0 /\ failed = 0 /\ failed_chunks = <<>>
             /\ epc = "idle" /\ exit_code = NoExit /\ sent = <<>>
CallIdle == /\ doc = NoDoc /\ dpc = "idle" /\ env1 = NoEnv /\ out1 = NoOut
            /\ env2 = NoEnv /\ out2 = NoOut
BatchIdle == /\ inventory = <<>> /\ pc = "idle" /\ idx = 1 /\ storage = <<>>
             /\ all_chunks = <<>> /\ report = NoReport /\ escaped = FALSE
             /\ outcomes = <<>> /\ first_run = NotRun
DocIdle == CallIdle /\ SizeIdle /\ EmbedIdle
MainIdle == BatchIdle /\ SizeIdle /\ EmbedIdle

\* -------------------------------------------- calls of chunk_document
DocHashes == {HashA, HashB}

InitDoc ==
  /\ \E path \in DocPaths, content \in Contents, hash \in DocHashes :
       doc = Doc(path, content, hash)
  /\ dpc = "ready" /\ env1 = NoEnv /\ out1 = NoOut /\ env2 = NoEnv /\ out2 = NoOut
  /\ MainIdle

ChunkDocumentCall ==
  /\ dpc = "ready"
  /\ \E env \in Envs :
       /\ env1' = env
       /\ out1' = Call(doc, env)
  /\ dpc' = "called"
  /\ UNCHANGED <<doc, env2, out2>>
  /\ UNCHANGED mainVars

\* A later call with the same arguments: the text is the same, so the header
\* splitter fails or not as before; the tokenizer may have become available
\* or unavailable since.
ChunkDocumentAgain ==
  /\ dpc = "called"
  /\ \E env \in Envs :
       /\ env.hdrFail = env1.hdrFail
       /\ env2' = env
       /\ out2' = Call(doc, env)
  /\ dpc' = "recalled"
  /\ UNCHANGED <<doc, env1, out1>>
  /\ UNCHANGED mainVars

NextDoc == ChunkDocumentCall \/ ChunkDocumentAgain

SpecDoc == InitDoc /\ [][NextDoc]_vars

\* ------------------------------------ the sections of an extracted file
\* The original files of the model, a name and an extension each.
Originals ==
  { <<"report", ".pdf">>, <<"costs", ".xlsx">>, <<"mail", ".msg">>, <<"notes", ".txt">> }

\* Path(filename).stem
Stem(filename) == SubSeq(filename, 1, Len(filename) - 1)
\* the path save_extraction writes the markdown of a file to
ExtractionPath(filename) == <<ExtractionDir>> \o Stem(filename) \o <<MarkdownSuffix>>
\* a path that keeps the extension of the file, as the paths of DocPaths do
NamedPath(filename) == <<ExtractionDir>> \o filename \o <<MarkdownSuffix>>
PathsOf(filename) == {ExtractionPath(filename), NamedPath(filename)}

\* the lines of the contents that are split: every marker and annotation,
\* a heading that is no marker, a rule and a paragraph
\* (the content without a line is the empty or whitespace-only content)
SectionBlocks == {PB, PN, H2Page, H2Sheet, H2Specs, H2Email, H1, HR, T(1)}
SectionContents ==
  {Placed(blocks) : blocks \in UNION {[1..n -> SectionBlocks] : n \in 0..MaxSectionLines}}

Extracted(original, path, content) ==
  [original |-> original, path |-> path, content |-> content, hash |-> HashA]

InitSplit ==
  /\ \E original \in Originals, content \in SectionContents :
       \E path \in PathsOf(original) : doc = Extracted(original, path, content)
  /\ dpc = "ready" /\ env1 = NoEnv /\ out1 = NoOut /\ env2 = NoEnv /\ out2 = NoOut
  /\ MainIdle

\* lines 376 to 379 of chunk_document: the sections of the content
SplitDocument ==
  /\ dpc = "ready"
  /\ out1' = Trace(Returned(<<>>), SectionsOf(doc.path, doc.content), <<>>)
  /\ dpc' = "split"
  /\ UNCHANGED <<doc, env1, env2, out2>>
  /\ UNCHANGED mainVars

NextSplit == SplitDocument

SpecSplit == InitSplit /\ [][NextSplit]_vars

\* ------------------------------------- a call of chunk_section_content
\* The blocks of the sections that are chunked alone: heading lines of two
\* titles of one level and of a deeper level, paragraphs under and over the
\* merge threshold, and a paragraph of half the target.
FragmentBlocks == {H1, H1Appendix, H3, T(5), T(6), T(7), T(3)}
FragmentContents ==
  {Placed(blocks) : blocks \in UNION {[1..n -> FragmentBlocks] : n \in 0..MaxFragmentLines}}
FragmentLocations == {PageLabel(2), SheetLabel(SheetName(0))}

\* the result of a call with the fragments it went through: the header
\* fragments of lines 277 to 281 and the merged fragments of lines 283 to 309
SectionTrace(result, splits, merged) ==
  [raised |-> result.raised, chunks |-> result.chunks,
   header_splits |-> splits, merged_sections |-> merged]
SectionCallOn(section_content, splits, location, env) ==
  SectionTrace(chunk_section_content(section_content, location, env),
               splits, merged_sections(splits, env))
SectionCall(section_content, location, env) ==
  SectionCallOn(section_content,
                IF section_content = <<>> THEN <<>> ELSE header_splits(section_content, env),
                location, env)

InitSection ==
  /\ \E content \in FragmentContents, location \in FragmentLocations :
       doc = [content |-> content, location |-> location]
  /\ dpc = "ready" /\ env1 = NoEnv /\ out1 = NoOut /\ env2 = NoEnv /\ out2 = NoOut
  /\ MainIdle

ChunkSectionCall ==
  /\ dpc = "ready"
  /\ \E env \in Envs :
       /\ env1' = env
       /\ out1' = SectionCall(doc.content, doc.location, env)
  /\ dpc' = "chunked"
  /\ UNCHANGED <<doc, env2, out2>>
  /\ UNCHANGED mainVars

NextSection == ChunkSectionCall

SpecSection == InitSection /\ [][NextSection]_vars

\* -------------------------------------- the size split of one fragment
\* The fragments that are split by size: a first line (none, a paragraph of
\* half the target or a line just under the target) and a run of short
\* lines after it, a line feed between the lines.
FirstLines == {<<>>, <<T(3)>>, <<T(8)>>}
LinesText(first, n) ==
  LET lines == first \o [i \in 1..n |-> W]
  IN [i \in 1..(2 * Len(lines) - 1) |->
        IF i % 2 = 1 THEN [lines[(i + 1) \div 2] EXCEPT !.p = (i + 1) \div 2] ELSE NL]
SizedPaths == {EmptyMetadata, MetadataAfter(EmptyMetadata, H1)}
\* the lengths of the runs of short lines: short runs and the longest
ShortLineCounts == {0, 1, 2, MaxShortLines \div 9, MaxShortLines \div 3, MaxShortLines}

InitSized ==
  /\ \E first \in FirstLines, n \in ShortLineCounts, path \in SizedPaths :
       /\ Len(first) + n >= 1
       /\ doc = [fragment |-> Document(LinesText(first, n), path), location |-> PageLabel(2)]
  /\ dpc = "ready" /\ env1 = NoEnv /\ out1 = NoOut /\ env2 = NoEnv /\ out2 = NoOut
  /\ BatchIdle /\ SizeIdle /\ EmbedIdle

\* no separator before the line feed matches, and no line reaches chunk_size:
\* split_text cuts at the line feeds and merges the lines
SplitsAtLineFeeds(text, env) ==
  /\ ChosenSeparator(text, 1) = 2
  /\ LET pieces == SplitWithSeparator(text, 2)
     IN \A i \in 1..Len(pieces) : token_counter(pieces[i], env) < TargetChunkSize

\* lines 337 to 347: a fragment within the target is one chunk
FragmentFits ==
  /\ dpc = "ready"
  /\ \E env \in Envs :
       /\ ~env.hdrFail
       /\ FitsTarget(count_tokens(doc.fragment.page_content, env))
       /\ env1' = env
       /\ out1' = Returned(SectionChunks(doc.fragment, doc.location, env))
  /\ dpc' = "sized"
  /\ UNCHANGED <<doc, env2, out2>>
  /\ UNCHANGED <<sizeVars, batchVars, embedVars>>

\* lines 348 and 349: split_text is called on a fragment over the target and
\* cuts it into its pieces
SplitStarts ==
  /\ dpc = "ready"
  /\ \E env \in Envs :
       /\ ~env.hdrFail
       /\ ~FitsTarget(count_tokens(doc.fragment.page_content, env))
       /\ ~split_text_raises(doc.fragment.page_content, env)
       /\ SplitsAtLineFeeds(doc.fragment.page_content, env)
       /\ env1' = env
       /\ splits_left' = SplitWithSeparator(doc.fragment.page_content, 2)
  /\ doc_pieces' = <<>> /\ doc_total' = 0 /\ docs_done' = <<>>
  /\ dpc' = "merge"
  /\ UNCHANGED <<doc, out1, env2, out2>>
  /\ UNCHANGED <<batchVars, embedVars>>

\* one turn of the loop of _merge_splits for a piece that fits the running
\* chunk, or that comes when the running chunk is empty
PieceAdded ==
  /\ dpc = "merge" /\ splits_left # <<>>
  /\ LET d == Head(splits_left)
         len == token_counter(d, env1)
     IN /\ ~(Overflows(doc_total, len) /\ doc_pieces # <<>>)
        /\ doc_pieces' = Append(doc_pieces, d)
        /\ doc_total' = doc_total + len
  /\ splits_left' = Tail(splits_left)
  /\ UNCHANGED docs_done
  /\ UNCHANGED <<callVars, batchVars, embedVars>>

\* the piece does not fit: the running chunk is joined and put out, and the
\* loop that makes room for the piece begins
ChunkPutOut ==
  /\ dpc = "merge" /\ splits_left # <<>>
  /\ Overflows(doc_total, token_counter(Head(splits_left), env1)) /\ doc_pieces # <<>>
  /\ docs_done' = docs_done \o JoinDocs(doc_pieces)
  /\ dpc' = "drop"
  /\ UNCHANGED <<doc, env1, out1, env2, out2>>
  /\ UNCHANGED <<splits_left, doc_pieces, doc_total>>
  /\ UNCHANGED <<batchVars, embedVars>>

\* the condition of the while loop of _merge_splits
MustDrop(len) ==
  doc_total > ChunkOverlap \/ (Overflows(doc_total, len) /\ doc_total > 0)

\* one turn of the while loop: the first piece leaves the running chunk
PieceDropped ==
  /\ dpc = "drop"
  /\ MustDrop(token_counter(Head(splits_left), env1))
  /\ doc_total' = doc_total - token_counter(Head(doc_pieces), env1)
  /\ doc_pieces' = Tail(doc_pieces)
  /\ UNCHANGED <<splits_left, docs_done>>
  /\ UNCHANGED <<callVars, batchVars, embedVars>>

\* the while loop is over: the piece starts or extends the running chunk
PieceAddedAfterDrop ==
  /\ dpc = "drop"
  /\ ~MustDrop(token_counter(Head(splits_left), env1))
  /\ doc_pieces' = Append(doc_pieces, Head(splits_left))
  /\ doc_total' = doc_total + token_counter(Head(splits_left), env1)
  /\ splits_left' = Tail(splits_left)
  /\ dpc' = "merge"
  /\ UNCHANGED docs_done
  /\ UNCHANGED <<doc, env1, out1, env2, out2>>
  /\ UNCHANGED <<batchVars, embedVars>>

\* lines 350 to 356 for the chunks of split_text
SubChunks(sub_chunks, section, location, env) ==
  [i \in 1..Len(sub_chunks) |->
     Chunk(sub_chunks[i], count_tokens(sub_chunks[i], env), section.metadata, location)]

\* the pieces are used up: the running chunk is joined and put out, and
\* split_text returns
SplitReturns ==
  /\ dpc = "merge" /\ splits_left = <<>>
  /\ docs_done' = docs_done \o JoinDocs(doc_pieces)
  /\ out1' = Returned(SubChunks(docs_done \o JoinDocs(doc_pieces), doc.fragment, doc.location, env1))
  /\ doc_pieces' = <<>> /\ doc_total' = 0
  /\ dpc' = "sized"
  /\ UNCHANGED <<doc, env1, env2, out2, splits_left>>
  /\ UNCHANGED <<batchVars, embedVars>>

NextSized ==
  \/ FragmentFits
  \/ SplitStarts
  \/ PieceAdded
  \/ ChunkPutOut
  \/ PieceDropped
  \/ PieceAddedAfterDrop
  \/ SplitReturns

SpecSized == InitSized /\ [][NextSized]_vars

\* ------------------------------------------------------ a batch run of main
\* The inventory lists deduplicated documents: no two entries have the same
\* path or the same content hash.
BatchContents ==
  {Placed(blocks) : blocks \in {<<T(2), H1, T(2)>>, <<T(3)>>, <<T(4), T(4)>>, <<T(1)>>}}
BatchDocs == {Doc(path, content, hash) : path \in DocPaths, content \in BatchContents, hash \in Hashes}
Inventories ==
  {inv \in SeqsUpTo(BatchDocs, MaxDocs) :
     \A i, j \in 1..Len(inv) : i # j => inv[i].path # inv[j].path /\ inv[i].hash # inv[j].hash}

\* the loop of line 479 is over: the report is next
AfterDocument == IF idx >= Len(inventory) THEN "report" ELSE "loop"

InitMain ==
  /\ inventory \in Inventories
  /\ pc = IF inventory = <<>> THEN "report" ELSE "loop"
  /\ idx = 1 /\ storage = <<>> /\ all_chunks = <<>> /\ report = NoReport
  /\ escaped = FALSE /\ outcomes = <<>> /\ first_run = NotRun
  /\ DocIdle

\* what the except clause of lines 507 and 508 does with an exception of the
\* loop body: it logs it, and the loop goes on with the next document
\* a handler that lets the exception out of main
CaughtAndRaised ==
  /\ outcomes' = Append(outcomes, "failed")
  /\ idx' = idx
  /\ pc' = "done"
  /\ escaped' = TRUE
Caught ==
  /\ outcomes' = Append(outcomes, "failed")
  /\ idx' = idx + 1
  /\ pc' = AfterDocument
  /\ escaped' = escaped

\* lines 481 to 484: read_file returns nothing, the document is skipped
ReadNothing ==
  /\ pc = "loop"
  /\ outcomes' = Append(outcomes, "unreadable")
  /\ idx' = idx + 1
  /\ pc' = AfterDocument
  /\ UNCHANGED <<inventory, storage, all_chunks, report, escaped, first_run>>
  /\ UNCHANGED docVars

\* read_file (line 481) or decode (line 486) raises
ReadOrDecodeRaises ==
  /\ pc = "loop"
  /\ Caught
  /\ UNCHANGED <<inventory, storage, all_chunks, report, first_run>>
  /\ UNCHANGED docVars

\* chunk_document (line 488) for the document of this turn of the loop
Attempt(env) ==
  chunk_document(inventory[idx].path, inventory[idx].content, inventory[idx].hash, env)

\* chunk_document raises
ChunkingRaises ==
  /\ pc = "loop"
  /\ \E env \in Envs : Attempt(env).raised
  /\ Caught
  /\ UNCHANGED <<inventory, storage, all_chunks, report, first_run>>
  /\ UNCHANGED docVars

\* write_json (line 499) raises for the chunk after the first n: the n
\* records written stay, the list all_chunks is not extended
SavedUntilRaise(result) ==
  /\ ~result.raised
  /\ \E n \in 0..(Len(result.chunks) - 1) : storage' = SaveChunks(storage, result.chunks, n)
SavingRaises ==
  /\ pc = "loop"
  /\ \E env \in Envs : SavedUntilRaise(Attempt(env))
  /\ Caught
  /\ UNCHANGED <<inventory, all_chunks, report, first_run>>
  /\ UNCHANGED docVars

\* lines 481 to 505 without an exception
SavedAndCollected(result) ==
  /\ ~result.raised
  /\ storage' = SaveChunks(storage, result.chunks, Len(result.chunks))
  /\ all_chunks' = all_chunks \o result.chunks
DocumentChunked ==
  /\ pc = "loop"
  /\ \E env \in Envs : SavedAndCollected(Attempt(env))
  /\ outcomes' = Append(outcomes, "chunked")
  /\ idx' = idx + 1
  /\ pc' = AfterDocument
  /\ UNCHANGED <<inventory, report, escaped, first_run>>
  /\ UNCHANGED docVars

\* lines 510 to 517
ReportWritten ==
  /\ pc = "report"
  /\ report' = generate_report(all_chunks, Len(inventory))
  /\ pc' = "done"
  /\ UNCHANGED <<inventory, idx, storage, all_chunks, escaped, outcomes, first_run>>
  /\ UNCHANGED docVars

\* write_file of the report (line 512) raises: nothing catches it
ReportRaises ==
  /\ pc = "report"
  /\ escaped' = TRUE
  /\ pc' = "done"
  /\ UNCHANGED <<inventory, idx, storage, all_chunks, report, outcomes, first_run>>
  /\ UNCHANGED docVars

Next ==
  \/ ReadNothing
  \/ ReadOrDecodeRaises
  \/ ChunkingRaises
  \/ SavingRaises
  \/ DocumentChunked
  \/ ReportWritten
  \/ ReportRaises

Init == InitMain

Spec == Init /\ [][Next]_vars

\* ------------------------------------------------ main run a second time
\* every document of the run was read, chunked and saved
AllChunked(results) == \A i \in 1..Len(results) : results[i] = "chunked"

\* main is started again on the inventory and the contents of a run that
\* ended with every document chunked: lines 469 to 478 start from the
\* storage as that run left it
RunAgain ==
  /\ pc = "done" /\ ~escaped /\ ~first_run.ran /\ AllChunked(outcomes)
  /\ first_run' = [ran |-> TRUE, storage |-> storage, outcomes |-> outcomes]
  /\ pc' = IF inventory = <<>> THEN "report" ELSE "loop"
  /\ idx' = 1 /\ all_chunks' = <<>> /\ report' = NoReport /\ outcomes' = <<>>
  /\ UNCHANGED <<inventory, storage, escaped>>
  /\ UNCHANGED docVars

NextRerun == Next \/ RunAgain

SpecRerun == Init /\ [][NextRerun]_vars

\* ------------------------------------------------- generate_embeddings
DefaultBatchSize == 100
DefaultMaxRetries == 3
JsonSuffix == ".json"
\* f"{chunk['chunk_id']}.json", line 121
FileName(chunk_id) == chunk_id \o <<JsonSuffix>>
\* 'embedding_report.md', line 216
ReportName == <<"embedding_report", ".md">>

\* The chunk records of the model, as chunk_documents saved them: two chunks
\* of one document and one of another.  Of a record the embedding step
\* reads the chunk_id and the text.
EmbedChunkIds == {ChunkId(HashA, 0), ChunkId(HashA, 1), ChunkId(HashB, 0)}
ChunkFile(chunk_id) == [chunk_id |-> chunk_id, enriched_content |-> <<T(2)>>]
ChunkLists ==
  {list \in SeqsUpTo({ChunkFile(id) : id \in EmbedChunkIds}, MaxChunkFiles) :
     \A i, j \in 1..Len(list) : i # j => list[i] # list[j]}

\* lines 113 to 116: the record with its embedding; `run` tells the records
\* of this run from those an earlier run left
WithEmbedding(chunk, run) ==
  [chunk_id |-> chunk.chunk_id, enriched_content |-> chunk.enriched_content,
   embedding |-> "vector", run |-> run]

\* the records an earlier run left under output/embedded_documents, with or
\* without its report
EarlierStores ==
  {[name \in {FileName(id) : id \in ids} \cup extra |->
      IF name = ReportName THEN [run |-> "earlier"]
      ELSE WithEmbedding(ChunkFile(Remove(name, JsonSuffix)), "earlier")] :
     ids \in SUBSET EmbedChunkIds, extra \in {{}, {ReportName}}}

\* storage.list_files: the storage keeps one record by key, and lists a
\* folder as the names of the records written into it
list_files(store) == DOMAIN store

\* get_embedded_chunk_ids, lines 58 to 61
EmbeddedIdsWithSuffix(store) == {name \in list_files(store) : EndsWith(name, {JsonSuffix})}
get_embedded_chunk_ids(store) ==
  {Remove(name, JsonSuffix) : name \in {n \in list_files(store) : EndsWith(n, {JsonSuffix})}}

\* line 195
chunks_to_process(list, embedded_ids) ==
  SelectSeq(list, LAMBDA c : c.chunk_id \notin embedded_ids)

\* line 98: chunks[i:i + batch_size]
BatchAt(list, i, size) == SubSeq(list, i + 1, Min(i + size, Len(list)))
Batch == BatchAt(embed_chunks, batch_at, batch_size)
IdsOf(list) == [i \in 1..Len(list) |-> list[i].chunk_id]

\* lines 119 to 123 for one chunk
WriteEmbedded(store, chunk) ==
  [name \in DOMAIN store \cup {FileName(chunk.chunk_id)} |->
     IF name = FileName(chunk.chunk_id) THEN WithEmbedding(chunk, "this") ELSE store[name]]
\* lines 112 to 124 for the first n chunks of the batch
RECURSIVE SaveEmbedded(_, _, _)
SaveEmbedded(store, list, n) ==
  IF n = 0 THEN store ELSE WriteEmbedded(SaveEmbedded(store, list, n - 1), list[n])

\* the call of line 106 with the chunks of the batch, and how the try ended
Sent(outcome) == Append(sent, [at |-> batch_at, ids |-> IdsOf(Batch), outcome |-> outcome])

\* lines 128 to 138: the except clause
Retried ==
  IF retry_count + 1 >= max_retries
  THEN /\ failed' = failed + Len(Batch)
       /\ failed_chunks' = failed_chunks \o IdsOf(Batch)
       /\ batch_at' = batch_at + batch_size
       /\ retry_count' = 0
  ELSE /\ retry_count' = retry_count + 1
       /\ UNCHANGED <<failed, failed_chunks, batch_at>>

InBatch == epc = "batch" /\ batch_at < Len(embed_chunks)

\* client.embeddings.create raises
EmbeddingCallRaises ==
  /\ InBatch
  /\ sent' = Sent("call raised")
  /\ Retried
  /\ UNCHANGED <<chunk_store, embedded_store, embedded_before, embed_chunks, batch_size,
                 max_retries, processed, epc, exit_code>>
  /\ UNCHANGED <<callVars, sizeVars, batchVars>>

\* the embeddings come back and write_json raises for the chunk after the
\* first n of the batch
WriteRaises ==
  /\ InBatch
  /\ \E n \in 0..(Len(Batch) - 1) :
       /\ embedded_store' = SaveEmbedded(embedded_store, Batch, n)
       /\ processed' = processed + n
  /\ sent' = Sent("write raised")
  /\ Retried
  /\ UNCHANGED <<chunk_store, embedded_before, embed_chunks, batch_size, max_retries,
                 epc, exit_code>>
  /\ UNCHANGED <<callVars, sizeVars, batchVars>>

\* lines 105 to 126 without an exception
BatchEmbedded ==
  /\ InBatch
  /\ embedded_store' = SaveEmbedded(embedded_store, Batch, Len(Batch))
  /\ processed' = processed + Len(Batch)
  /\ sent' = Sent("embedded")
  /\ batch_at' = batch_at + batch_size
  /\ retry_count' = 0
  /\ UNCHANGED <<chunk_store, embedded_before, embed_chunks, batch_size, max_retries,
                 failed, failed_chunks, epc, exit_code>>
  /\ UNCHANGED <<callVars, sizeVars, batchVars>>

\* the loop of line 97 is over: lines 142 to 147
BatchesReturn ==
  /\ epc = "batch" /\ batch_at >= Len(embed_chunks)
  /\ epc' = "returned"
  /\ UNCHANGED <<chunk_store, embedded_store, embedded_before, embed_chunks, batch_size,
                 max_retries, batch_at, retry_count, processed, failed, failed_chunks,
                 exit_code, sent>>
  /\ UNCHANGED <<callVars, sizeVars, batchVars>>

\* a call of generate_embeddings_batch with any list of chunks, a batch
\* size of 1 or 2 and up to 3 tries
InitEmbedBatch ==
  /\ embed_chunks \in ChunkLists
  /\ batch_size \in {1, 2}
  /\ max_retries \in 1..DefaultMaxRetries
  /\ chunk_store = <<>> /\ embedded_store = <<>> /\ embedded_before = <<>>
  /\ batch_at = 0 /\ retry_count = 0 /\ processed = 0 /\ failed = 0
  /\ failed_chunks = <<>> /\ epc = "batch" /\ exit_code = NoExit /\ sent = <<>>
  /\ CallIdle /\ SizeIdle /\ BatchIdle

NextEmbedBatch ==
  \/ EmbeddingCallRaises
  \/ WriteRaises
  \/ BatchEmbedded
  \/ BatchesReturn

SpecEmbedBatch == InitEmbedBatch /\ [][NextEmbedBatch]_vars

\* ----------------------------------------------- main of generate_embeddings
InitEmbed ==
  /\ chunk_store \in ChunkLists
  /\ embedded_store \in EarlierStores
  /\ embedded_before = embedded_store
  /\ embed_chunks = <<>> /\ batch_size = 0 /\ max_retries = 0
  /\ batch_at = 0 /\ retry_count = 0 /\ processed = 0 /\ failed = 0
  /\ failed_chunks = <<>> /\ epc = "main" /\ exit_code = NoExit /\ sent = <<>>
  /\ CallIdle /\ SizeIdle /\ BatchIdle

Exit(code, at) ==
  /\ exit_code' = code
  /\ epc' = at
  /\ UNCHANGED <<chunk_store, embedded_store, embedded_before, embed_chunks, batch_size,
                 max_retries, batch_at, retry_count, processed, failed, failed_chunks, sent>>
  /\ UNCHANGED <<callVars, sizeVars, batchVars>>

\* lines 185 to 187: no client
NoClient == epc = "main" /\ Exit(1, "no client")

\* lines 189 to 191: no chunk was loaded
NoChunks == epc = "main" /\ chunk_store = <<>> /\ Exit(1, "no chunks")

\* lines 194 and 195
ToProcess == chunks_to_process(chunk_store, get_embedded_chunk_ids(embedded_store))

\* lines 198 to 200
AllEmbedded == epc = "main" /\ chunk_store # <<>> /\ ToProcess = <<>> /\ Exit(0, "nothing left")

\* lines 202 to 211: generate_embeddings_batch is called with its defaults
EmbeddingStarts ==
  /\ epc = "main" /\ chunk_store # <<>> /\ ToProcess # <<>>
  /\ embed_chunks' = ToProcess
  /\ batch_size' = DefaultBatchSize
  /\ max_retries' = DefaultMaxRetries
  /\ batch_at' = 0 /\ retry_count' = 0 /\ processed' = 0 /\ failed' = 0
  /\ failed_chunks' = <<>>
  /\ epc' = "batch"
  /\ UNCHANGED <<chunk_store, embedded_store, embedded_before, exit_code, sent>>
  /\ UNCHANGED <<callVars, sizeVars, batchVars>>

\* lines 215 to 221: the report is saved and main returns 0
EmbedReportSaved ==
  /\ epc = "returned"
  /\ embedded_store' =
       [name \in DOMAIN embedded_store \cup {ReportName} |->
          IF name = ReportName THEN [run |-> "this"] ELSE embedded_store[name]]
  /\ exit_code' = 0
  /\ epc' = "done"
  /\ UNCHANGED <<chunk_store, embedded_before, embed_chunks, batch_size, max_retries,
                 batch_at, retry_count, processed, failed, failed_chunks, sent>>
  /\ UNCHANGED <<callVars, sizeVars, batchVars>>

NextEmbed ==
  \/ NoClient
  \/ NoChunks
  \/ AllEmbedded
  \/ EmbeddingStarts
  \/ EmbeddingCallRaises
  \/ WriteRaises
  \/ BatchEmbedded
  \/ BatchesReturn
  \/ EmbedReportSaved

SpecEmbed == InitEmbed /\ [][NextEmbed]_vars

\* ============================================================== properties
\* the places of the blocks of a text
Places(text) == {text[i].p : i \in 1..Len(text)} \ {0}
FirstPlace(text) == CHOOSE p \in Places(text) : \A q \in Places(text) : p <= q
LastPlace(text) == CHOOSE p \in Places(text) : \A q \in Places(text) : q <= p
Called == dpc \in {"called", "recalled"}
Range(seq) == {seq[i] : i \in 1..Len(seq)}
\* the unfiltered chunks at or over the emission floor
Survivors(chunks) == SelectSeq(chunks, LAMBDA c : c.token_count >= MinEmitTokens)

\* The splits of the model stay at paragraph and line breaks: no chunk is a
\* text that the separators ". ", " " and "" would have had to cut.
SplitsAreModelled ==
  \A i \in 1..Len(out1.all_chunks) : out1.all_chunks[i].content # Unmodelled

\* C1: in a list returned by chunk_document the chunk_index values are
\* 0, 1, ..., n-1 in list order and every total_chunks is n, the length of
\* the list, which is the number of chunks that passed the size filter.
C1_IndexContiguity ==
  (Called /\ ~out1.raised) =>
    /\ Len(out1.chunks) = Len(Survivors(out1.all_chunks))
    /\ \A i \in 1..Len(out1.chunks) :
         /\ out1.chunks[i].chunk_index = i - 1
         /\ out1.chunks[i].total_chunks = Len(out1.chunks)

\* a chunk under the floor stands before a chunk that is emitted
C1_Witness ==
  /\ Called /\ ~out1.raised /\ Len(out1.chunks) >= 1
  /\ \E i, j \in 1..Len(out1.all_chunks) :
       /\ i < j
       /\ out1.all_chunks[i].token_count < MinEmitTokens
       /\ out1.all_chunks[j].token_count >= MinEmitTokens

\* the number a sequence of decimal digits writes
DigitValue(d) == CHOOSE n \in 0..9 : Str(n) = d
RECURSIVE Number(_)
Number(digits) ==
  IF digits = <<>> THEN 0
  ELSE 10 * Number(SubSeq(digits, 1, Len(digits) - 1)) + DigitValue(digits[Len(digits)])

IdWellFormed(c, hash) ==
  /\ Len(c.chunk_id) = HashPrefixLen + 1 + IdPadWidth
  /\ SubSeq(c.chunk_id, 1, HashPrefixLen) = SubSeq(hash, 1, HashPrefixLen)
  /\ c.chunk_id[HashPrefixLen + 1] = "_chunk_"
  /\ Number(SubSeq(c.chunk_id, HashPrefixLen + 2, Len(c.chunk_id))) = c.chunk_index

\* C2: a chunk_id is the first 8 characters of content_hash, '_chunk_' and
\* the chunk_index in 3 digits; chunks of two calls with the same hash and
\* the same index have the same id whatever their content, heading path and
\* location are, and chunks with different indices have different ids.
C2_ChunkIdFormat ==
  /\ Called => \A i \in 1..Len(out1.chunks) : IdWellFormed(out1.chunks[i], doc.hash)
  /\ dpc = "recalled" =>
       /\ \A i \in 1..Len(out2.chunks) : IdWellFormed(out2.chunks[i], doc.hash)
       /\ \A c \in Range(out1.chunks), d \in Range(out2.chunks) :
            (c.chunk_index = d.chunk_index) <=> (c.chunk_id = d.chunk_id)

\* two calls give a chunk of the same index and another content
C2_Witness ==
  /\ dpc = "recalled" /\ Len(out1.chunks) >= 2 /\ Len(out2.chunks) >= 1
  /\ out1.chunks[1].content # out2.chunks[1].content
  /\ out1.chunks[1].chunk_id = out2.chunks[1].chunk_id

\* C3: two calls of chunk_document with the same doc_path, content and
\* content_hash, made at any two times, return identical chunk lists.
C3_SameResultTwice ==
  dpc = "recalled" => (out2.raised = out1.raised /\ out2.chunks = out1.chunks)

\* C4: every chunk returned has token_count >= 200; a fragment under 200
\* tokens is not in the result and takes no index, so a document whose only
\* fragment is under 200 tokens gives the empty list.
C4_EmissionFloor ==
  (Called /\ ~out1.raised) =>
    /\ \A i \in 1..Len(out1.chunks) : out1.chunks[i].token_count >= MinEmitTokens
    /\ \A i \in 1..Len(out1.all_chunks) :
         out1.all_chunks[i].token_count < MinEmitTokens =>
           \A j \in 1..Len(out1.chunks) : out1.chunks[j].content # out1.all_chunks[i].content
    /\ [i \in 1..Len(out1.chunks) |-> out1.chunks[i].content]
         = [i \in 1..Len(Survivors(out1.all_chunks)) |-> Survivors(out1.all_chunks)[i].content]

\* the only fragment of the document is under the floor: nothing is returned
C4_Witness ==
  /\ Called /\ ~out1.raised
  /\ Len(out1.all_chunks) = 1
  /\ out1.all_chunks[1].token_count < MinEmitTokens
  /\ out1.chunks = <<>>

\* C5: every chunk returned has token_count <= target_chunk_size, except a
\* chunk that is a single unit the separators do not split.
C5_WithinTarget ==
  Called =>
    \A i \in 1..Len(out1.chunks) :
      \/ out1.chunks[i].token_count <= TargetChunkSize
      \/ Len(BlocksOf(out1.chunks[i].content)) = 1

\* body text: a paragraph or a heading that no pattern takes for a marker
IsBody(e) == e.k \in {"T", "H1"}

\* C6: the sections do not overlap and hold, in order, every paragraph and
\* heading of the content: nothing but marker lines, page annotations and
\* '---' separators is left out.
C6_SectionsCoverBody ==
  Called =>
    /\ \A i, j \in 1..Len(out1.sections) :
         i # j => Places(out1.sections[i].text) \cap Places(out1.sections[j].text) = {}
    /\ SelectSeq(Flatten([i \in 1..Len(out1.sections) |-> out1.sections[i].text]), IsBody)
         = SelectSeq(doc.content, IsBody)

\* C7: chunks of two documents with different content_hash have different
\* chunk_ids, so every chunk of a document that was saved is still the
\* record stored under its chunk_id.
C7_NoCollision ==
  /\ \A c, d \in Range(all_chunks) :
       c.document_hash # d.document_hash => c.chunk_id # d.chunk_id
  /\ \A c \in Range(all_chunks) :
       c.chunk_id \in DOMAIN storage /\ storage[c.chunk_id].document_hash = c.document_hash

\* the chunks collected for the document at place i of the inventory
ChunksOfDocument(i) == SelectSeq(all_chunks, LAMBDA c : c.document_hash = inventory[i].hash)

\* C8: a failure of one document does not end the batch: the loop visits
\* every document of the inventory, a document chunked after a failed one has
\* its chunks collected and stored, no exception leaves main while the
\* documents are processed, and the report is written at the end.
C8_BatchContinues ==
  /\ Len(outcomes) = idx - 1
  /\ pc \in {"report", "done"} => Len(outcomes) = Len(inventory)
  /\ pc # "done" => ~escaped
  /\ (pc = "done" /\ ~escaped) => report = generate_report(all_chunks, Len(inventory))
  /\ \A c \in Range(all_chunks) : c.chunk_id \in DOMAIN storage
  /\ \A c \in Range(all_chunks) :
       \E i \in 1..Len(outcomes) : outcomes[i] = "chunked" /\ inventory[i].hash = c.document_hash

\* the first document failed, the second was chunked and saved, and the
\* report is written
C8_Witness ==
  /\ pc = "done" /\ ~escaped /\ report # NoReport
  /\ outcomes = <<"failed", "chunked">>
  /\ Len(ChunksOfDocument(2)) >= 1
  /\ \A c \in Range(all_chunks) : storage[c.chunk_id] = c

\* C9: no stage fails the call, and no text of a section is missing from
\* the chunks the sections yield: only the emission filter leaves text out.
C9_NoLossByError ==
  Called =>
    /\ ~out1.raised
    /\ \A i \in 1..Len(out1.sections) :
         Places(out1.sections[i].text) \subseteq
           UNION {Places(out1.all_chunks[j].content) : j \in 1..Len(out1.all_chunks)}

\* the section a chunk was cut from
SectionIndex(c) ==
  CHOOSE i \in 1..Len(out1.sections) : Places(c.content) \subseteq Places(out1.sections[i].text)

\* C10: the sections are in the order of the content, and the chunks are in
\* the order of their sections and, inside a section, of their text.
C10_ReadingOrder ==
  (Called /\ ~out1.raised) =>
    /\ \A i, j \in 1..Len(out1.sections) :
         i < j => LastPlace(out1.sections[i].text) < FirstPlace(out1.sections[j].text)
    /\ \A i, j \in 1..Len(out1.chunks) :
         i < j =>
           /\ SectionIndex(out1.chunks[i]) <= SectionIndex(out1.chunks[j])
           /\ out1.chunks[i].location = out1.sections[SectionIndex(out1.chunks[i])].location
           /\ FirstPlace(out1.chunks[i].content) <= FirstPlace(out1.chunks[j].content)
           /\ LastPlace(out1.chunks[i].content) <= LastPlace(out1.chunks[j].content)

\* two chunks that follow each other come from two sections
C10_Witness ==
  /\ Called /\ ~out1.raised /\ Len(out1.chunks) >= 2
  /\ out1.chunks[1].location # out1.chunks[2].location

\* C11: a second run of main on the same inventory and contents, in which
\* as in the first every document is chunked and saved, leaves the storage
\* with the chunk_ids and the records the first run left.
C11_RerunChangesNothing ==
  (first_run.ran /\ pc = "done" /\ ~escaped /\ AllChunked(first_run.outcomes)
     /\ AllChunked(outcomes) /\ Len(outcomes) = Len(inventory))
    => storage = first_run.storage

\* ------------------------------------------------ sections of a content
Split == dpc = "split"
Source == SourceFileOf(doc.path)
Kinds(k) == {i \in 1..Len(doc.content) : doc.content[i].k \in k}
\* the lines of the content, in order, at the places of a set
LinesAt(places) == SelectSeq(doc.content, LAMBDA e : e.p \in places)
Labels == [i \in 1..Len(out1.sections) |-> out1.sections[i].location]

\* the block of the content, counted from 1, that holds line i when the
\* content is cut at the page breaks
BlockOfLine(i) == 1 + Cardinality({j \in Kinds({"PB"}) : j < i})
BlockLines(b) == {i \in 1..Len(doc.content) : BlockOfLine(i) = b} \ Kinds({"PB"})
PageOfBlock(b) ==
  LET numbers == {doc.content[i].n : i \in BlockLines(b) \cap Kinds({"PN"})}
  IN IF numbers = {} THEN b ELSE CHOOSE n \in numbers : TRUE
\* the blocks that hold a line which is not an annotation
PageBlocks == {b \in 1..(Len(doc.content) + 1) : BlockLines(b) \ Kinds({"PN"}) # {}}
\* the j-th member of a set of numbers
Nth(set, j) == CHOOSE x \in set : Cardinality({y \in set : y < x}) = j - 1

\* C12: a .pdf content with '<!-- PageBreak -->' gives one section for each
\* block between the markers that holds text, in order, with all lines of
\* the block but the annotations (a '## Page N' line stays text), labelled
\* 'Page n' with n the number of the annotation of the block, else the
\* number of the block counted from 1.
C12_PageBreakSections ==
  (Split /\ is_pdf(Source) /\ Kinds({"PB"}) # {}) =>
    /\ Len(out1.sections) = Cardinality(PageBlocks)
    /\ \A j \in 1..Len(out1.sections) :
         LET b == Nth(PageBlocks, j)
         IN /\ out1.sections[j].text = LinesAt(BlockLines(b) \ Kinds({"PN"}))
            /\ out1.sections[j].location = <<"Page ", Str(PageOfBlock(b))>>

\* two pages, the first without annotation, the second with one
C12_Witness ==
  /\ Split /\ is_pdf(Source)
  /\ [i \in 1..Len(doc.content) |-> doc.content[i].k] = <<"T", "PB", "PN", "T">>
  /\ Labels = << <<"Page ", "1">>, <<"Page ", "7">> >>

\* the markers of a tabular content and the lines that follow each
SheetMarkers == Kinds({"H2Sheet"})
AfterMarker(m) == {i \in 1..Len(doc.content) : i > m /\ \A j \in SheetMarkers : ~(m < j /\ j <= i)}
\* the lines after a marker without a '---' at their start and at their end
SheetBody(m) ==
  LET after == AfterMarker(m)
      first == IF after # {} /\ doc.content[Nth(after, 1)].k = "HR" THEN {Nth(after, 1)} ELSE {}
      rest == after \ first
      last == IF rest # {} /\ doc.content[Nth(rest, Cardinality(rest))].k = "HR"
              THEN {Nth(rest, Cardinality(rest))} ELSE {}
  IN rest \ last
FilledSheets == {m \in SheetMarkers : SheetBody(m) # {}}

\* C13: a .xlsx, .xls or .csv content with '## Sheet: <name>' lines gives
\* one section for each such line that has text after it, in the order of
\* the lines, labelled 'Sheet: <name>', holding the lines up to the next
\* marker.
C13_SheetSections ==
  (Split /\ is_excel(Source) /\ SheetMarkers # {}) =>
    /\ Len(out1.sections) = Cardinality(FilledSheets)
    /\ \A j \in 1..Len(out1.sections) :
         LET m == Nth(FilledSheets, j)
         IN /\ out1.sections[j].text = LinesAt(SheetBody(m))
            /\ out1.sections[j].location =
                 <<"Sheet: ", IF doc.content[m].n = H2Sheet.n THEN "Costs" ELSE "Specs">>

\* '## Sheet: Costs' and '## Sheet: Specs', text after each
C13_Witness ==
  /\ Split /\ is_excel(Source)
  /\ [i \in 1..Len(doc.content) |-> doc.content[i].k] = <<"H2Sheet", "T", "H2Sheet", "T">>
  /\ Labels = << <<"Sheet: ", "Costs">>, <<"Sheet: ", "Specs">> >>

\* the markers of the kind the source type selects
SelectedMarkers ==
  IF is_pdf(Source) THEN Kinds({"PB", "H2Page"})
  ELSE IF is_excel(Source) THEN Kinds({"H2Sheet"})
  ELSE IF is_email(Source) THEN Kinds({"H2Email"})
  ELSE Kinds({"H2Page", "H2Sheet", "H2Email"})

\* C14: a content without a marker of the selected kind gives exactly one
\* section, the whole content, labelled 'Page 1' for a .pdf source and
\* 'Section 1' for any other.
C14_NoMarkerOneSection ==
  (Split /\ SelectedMarkers = {}) =>
    /\ Len(out1.sections) = 1
    /\ out1.sections[1].text = doc.content
    /\ out1.sections[1].location =
         IF is_pdf(Source) THEN <<"Page ", "1">> ELSE <<"Section ", "1">>

\* a tabular source whose content has page markers and no sheet marker
C14_Witness ==
  /\ Split /\ is_excel(Source) /\ SelectedMarkers = {}
  /\ Kinds({"H2Page"}) # {} /\ Kinds({"T"}) # {}
  /\ Labels = << <<"Section ", "1">> >>

\* C15: no section has an empty or whitespace-only text.
C15_NoEmptySection ==
  Split => \A j \in 1..Len(out1.sections) : Strip(out1.sections[j].text) # <<>>

\* C16: for the path save_extraction writes, the sections are those of the
\* rules of the extension of the original file.
C16_RulesOfOriginalExtension ==
  (Split /\ doc.path = ExtractionPath(doc.original)) =>
    out1.sections = split_by_document_sections(doc.content, doc.original)

\* ------------------------------------------------------- the chunk records
\* the extensions of file names
Extensions == {".pdf", ".xlsx", ".xls", ".csv", ".msg", ".txt"}
\* a file name without its extension, the underscores as spaces
NameShown(source_file) ==
  LET n == Len(source_file)
      stem == IF n > 0 /\ source_file[n] \in Extensions THEN SubSeq(source_file, 1, n - 1)
              ELSE source_file
  IN [i \in 1..Len(stem) |-> IF stem[i] = "_" THEN " " ELSE stem[i]]
\* the titles of a heading path from level 1 to level 4, without emphasis marks
PathTitles(heading_path) ==
  LET keys == SelectSeq(<<"Header 1", "Header 2", "Header 3", "Header 4">>,
                        LAMBDA key : key \in DOMAIN heading_path)
  IN [i \in 1..Len(keys) |-> SelectSeq(heading_path[keys[i]], LAMBDA w : w \notin {"**", "*"})]
\* the header the chunk should have, line by line
HeaderLines(c) ==
  <<Line("Document", <<"Document: ">> \o NameShown(c.source_file))>>
  \o (IF DOMAIN c.section_hierarchy # {}
      THEN <<Line("Section", <<"Section: ">> \o Join(<<" > ">>, PathTitles(c.section_hierarchy)))>>
      ELSE <<>>)
  \o (IF c.location # <<>> THEN <<Line("Location", <<"Location: ">> \o c.location)>> ELSE <<>>)

\* C17: enriched_content is the header, a blank line and the content; the
\* header is a 'Document:' line with the file name without extension and
\* with spaces for underscores, a 'Section:' line with the titles of the
\* heading path from level 1 to level 4 joined by ' > ' if the path is not
\* empty, and a 'Location:' line if the location is not empty.
C17_EnrichedContent ==
  Called =>
    \A i \in 1..Len(out1.chunks) :
      LET c == out1.chunks[i]
          lines == HeaderLines(c)
      IN c.enriched_content =
           Join(<<NL>>, [j \in 1..Len(lines) |-> <<lines[j]>>]) \o <<NN>> \o c.content

\* C18: section_title is the title of the first of the levels 2, 3, 1, 4
\* that the heading path has, and is absent exactly when it has none.
C18_SectionTitle ==
  Called =>
    \A i \in 1..Len(out1.chunks) :
      LET c == out1.chunks[i]
          h == c.section_hierarchy
      IN /\ c.section_title =
              IF "Header 2" \in DOMAIN h THEN h["Header 2"]
              ELSE IF "Header 3" \in DOMAIN h THEN h["Header 3"]
              ELSE IF "Header 1" \in DOMAIN h THEN h["Header 1"]
              ELSE IF "Header 4" \in DOMAIN h THEN h["Header 4"]
              ELSE <<>>
         /\ (c.section_title = <<>>) <=> (DOMAIN h = {})

\* a chunk under a level 1 and a level 3 heading has the title of level 3
C18_Witness ==
  /\ Called
  /\ \E i \in 1..Len(out1.chunks) :
       /\ DOMAIN out1.chunks[i].section_hierarchy = {"Header 1", "Header 3"}
       /\ out1.chunks[i].section_title = out1.chunks[i].section_hierarchy["Header 3"]
       /\ out1.chunks[i].section_title # out1.chunks[i].section_hierarchy["Header 1"]

\* the tokenizer cannot count the text: it is not loaded, or it refuses the text
NotCounted(text, env) == env.tok = "unavailable" \/ HasSpecial(text)

\* C19: when the tokenizer is not available or raises, every count is
\* floor(len(text) / 4) and the call returns its chunks.
C19_FallbackCount ==
  Called =>
    /\ ~out1.raised
    /\ \A i \in 1..Len(out1.chunks) :
         LET c == out1.chunks[i]
         IN /\ NotCounted(c.content, env1) =>
                 c.token_count = Chars(c.content) \div FallbackCharsPerToken
            /\ NotCounted(c.enriched_content, env1) =>
                 c.enriched_token_count = Chars(c.enriched_content) \div FallbackCharsPerToken

\* the documents of the run that were read, chunked and saved
Processed == {i \in 1..Len(outcomes) : outcomes[i] = "chunked"}

\* C20: the report counts the documents that were processed in the run and
\* the chunks emitted for them.
C20_ReportCounts ==
  (pc = "done" /\ ~escaped) =>
    /\ report.documents = Cardinality(Processed)
    /\ report.chunks = Len(all_chunks)

\* ------------------------------------------------ the stages of a section
\* the unfiltered chunks cut from the section at place j
ChunksOfSection(j) ==
  SelectSeq(out1.all_chunks, LAMBDA c : Places(c.content) \subseteq Places(out1.sections[j].text))

\* C21: a failure of the header splitter does not fail the call: the whole
\* text of the section is then one fragment with an empty heading path, and
\* the merge and the size split go on with it, so that the section gives
\* chunks with an empty heading path that hold its whole text, one chunk with
\* the whole text if it is within the target (the splitter is not called on
\* a section without text).
C21_HeaderFailureFallback ==
  (Called /\ env1.hdrFail) =>
    /\ out1.raised =>
         (env1.tok = "ok" /\ \E j \in 1..Len(out1.sections) : HasSpecial(out1.sections[j].text))
    /\ ~out1.raised =>
         \A j \in 1..Len(out1.sections) :
           LET text == AsText(out1.sections[j].text)
               mine == ChunksOfSection(j)
           IN /\ \A i \in 1..Len(mine) :
                   mine[i].metadata = EmptyMetadata /\ mine[i].location = out1.sections[j].location
              /\ UNION {Places(mine[i].content) : i \in 1..Len(mine)} = Places(text)
              /\ (text # <<>> /\ count_tokens(text, env1) <= TargetChunkSize) =>
                   [i \in 1..Len(mine) |-> mine[i].content] = <<text>>

\* the splitter failed on a section with a heading line, and the section
\* was cut at the target into chunks without a heading path
C21_Witness ==
  /\ Called /\ env1.hdrFail /\ ~out1.raised
  /\ Len(out1.sections) = 1
  /\ \E i \in 1..Len(out1.sections[1].text) : HeaderLevel(out1.sections[1].text[i]) > 0
  /\ Len(out1.all_chunks) >= 2
  /\ \A i \in 1..Len(out1.all_chunks) : out1.all_chunks[i].metadata = EmptyMetadata

\* the sections a text has blocks of
SectionsOfText(text) ==
  {j \in 1..Len(out1.sections) : Places(text) \cap Places(out1.sections[j].text) # {}}

\* C27: no chunk mixes the text of two sections: the content of every chunk,
\* before and after the size filter, comes from exactly one section, and
\* the location of the chunk is the location of that section.
C27_OneSectionPerChunk ==
  (Called /\ ~out1.raised) =>
    \A c \in Range(out1.all_chunks) \cup
             {Chunk(d.content, d.token_count, d.section_hierarchy, d.location) : d \in Range(out1.chunks)} :
      /\ Cardinality(SectionsOfText(c.content)) = 1
      /\ \A j \in SectionsOfText(c.content) :
           /\ Places(c.content) \subseteq Places(out1.sections[j].text)
           /\ c.location = out1.sections[j].location

\* a section ends with a fragment under the merge threshold and the next
\* section begins with another: they are two chunks of two locations
C27_Witness ==
  /\ Called /\ ~out1.raised
  /\ Len(out1.sections) = 2 /\ Len(out1.all_chunks) = 2
  /\ out1.all_chunks[1].token_count < MinChunkSize
  /\ out1.all_chunks[1].location = out1.sections[1].location
  /\ out1.all_chunks[2].location = out1.sections[2].location
  /\ out1.sections[1].location # out1.sections[2].location

\* ----------------------------------------------------------- the merge pass
Chunked == dpc = "chunked"
\* the header fragments that a merged fragment holds
RunOf(k) ==
  {i \in 1..Len(out1.header_splits) :
     Places(out1.header_splits[i].page_content) \subseteq Places(out1.merged_sections[k].page_content)}
Lowest(set) == CHOOSE x \in set : \A y \in set : x <= y
Highest(set) == CHOOSE x \in set : \A y \in set : y <= x
\* the header fragments i to j, a blank line between them
Joined(i, j) ==
  Join(<<NN>>, [r \in 1..(j - i + 1) |-> out1.header_splits[i + r - 1].page_content])
\* the size of a fragment as the call measures it
Measured(text) == count_tokens(text, env1)

\* C28: the merge pass loses, doubles and reorders nothing: the merged list
\* of a non-empty list of header fragments is non-empty and not longer, each
\* merged fragment is the join of a run of consecutive header fragments in
\* their order, and every header fragment is in exactly one merged fragment.
C28_MergeKeepsFragments ==
  (Chunked /\ out1.header_splits # <<>>) =>
    /\ out1.merged_sections # <<>>
    /\ Len(out1.merged_sections) <= Len(out1.header_splits)
    /\ \A k \in 1..Len(out1.merged_sections) :
         /\ RunOf(k) # {}
         /\ RunOf(k) = Lowest(RunOf(k))..Highest(RunOf(k))
         /\ out1.merged_sections[k].page_content = Joined(Lowest(RunOf(k)), Highest(RunOf(k)))
    /\ \A k, l \in 1..Len(out1.merged_sections) :
         k < l => Highest(RunOf(k)) < Lowest(RunOf(l))
    /\ \A i \in 1..Len(out1.header_splits) :
         Cardinality({k \in 1..Len(out1.merged_sections) : i \in RunOf(k)}) = 1

\* three header fragments give two merged fragments: one of two header
\* fragments and one of a single header fragment
C28_Witness ==
  /\ Chunked /\ Len(out1.header_splits) = 3 /\ Len(out1.merged_sections) = 2
  /\ RunOf(1) = {1, 2} /\ RunOf(2) = {3}

\* C22: after the merge pass over a section whose fragments have
\* min_chunk_size tokens or more in all, no merged fragment has fewer than
\* min_chunk_size tokens, wherever it stands in the section.
C22_NoUndersizedFragment ==
  (Chunked /\ out1.header_splits # <<>>
     /\ Measured(Joined(1, Len(out1.header_splits))) >= MinChunkSize) =>
    \A k \in 1..Len(out1.merged_sections) :
      Measured(out1.merged_sections[k].page_content) >= MinChunkSize

\* C23: the running fragment absorbs the next header fragment exactly while
\* it has fewer than min_chunk_size tokens, so every merged fragment but the
\* last has min_chunk_size tokens or more, and header fragments of 50, 80
\* and 450 tokens become one merged fragment.
C23_AbsorbWhileUndersized ==
  (Chunked /\ out1.header_splits # <<>>) =>
    \A k \in 1..Len(out1.merged_sections) :
      /\ \A j \in RunOf(k) :
           j < Highest(RunOf(k)) => Measured(Joined(Lowest(RunOf(k)), j)) < MinChunkSize
      /\ k < Len(out1.merged_sections) =>
           /\ Measured(Joined(Lowest(RunOf(k)), Highest(RunOf(k)))) >= MinChunkSize
           /\ Measured(out1.merged_sections[k].page_content) >= MinChunkSize

\* header fragments of 50, 80 and 450 tokens are one merged fragment
C23_Witness ==
  /\ Chunked /\ env1.tok = "ok"
  /\ [i \in 1..Len(out1.header_splits) |-> Measured(out1.header_splits[i].page_content)]
       = <<50, 80, 450>>
  /\ Len(out1.merged_sections) = 1
  /\ Measured(out1.merged_sections[1].page_content) >= MinChunkSize

\* the title has the words of `part`, in a row
Contains(title, part) ==
  \E at \in 0..(Len(title) - Len(part)) : SubSeq(title, at + 1, at + Len(part)) = part

\* C24: the heading path of a merged fragment has every key of the header
\* fragments it holds; when B is absorbed into A, a key of B alone has the
\* title of B, a key with the same title in both keeps it, and a key with
\* two titles has '<title of A> / <title of B>'; over any number of merges
\* the title of every absorbed fragment is in the merged title.
C24_HeadingPathMerge ==
  (Chunked /\ out1.header_splits # <<>>) =>
    \A k \in 1..Len(out1.merged_sections) :
      LET path == out1.merged_sections[k].metadata
          first == out1.header_splits[Lowest(RunOf(k))].metadata
          last == out1.header_splits[Highest(RunOf(k))].metadata
      IN /\ DOMAIN path = UNION {DOMAIN out1.header_splits[i].metadata : i \in RunOf(k)}
         /\ \A i \in RunOf(k) :
              \A key \in DOMAIN out1.header_splits[i].metadata :
                Contains(path[key], out1.header_splits[i].metadata[key])
         /\ Cardinality(RunOf(k)) = 2 =>
              \A key \in DOMAIN path :
                path[key] =
                  IF key \notin DOMAIN first THEN last[key]
                  ELSE IF key \notin DOMAIN last THEN first[key]
                  ELSE IF first[key] = last[key] THEN first[key]
                  ELSE first[key] \o <<" / ">> \o last[key]

\* a merged fragment of three header fragments: a key with two titles and
\* a key of the last fragment alone
C24_Witness ==
  /\ Chunked
  /\ \E k \in 1..Len(out1.merged_sections) :
       /\ Cardinality(RunOf(k)) = 3
       /\ "Header 1" \in DOMAIN out1.merged_sections[k].metadata
       /\ out1.merged_sections[k].metadata["Header 1"] = <<"Overview", " / ", "Appendix">>
       /\ "Header 3" \in DOMAIN out1.merged_sections[k].metadata
       /\ "Header 3" \notin DOMAIN out1.header_splits[Lowest(RunOf(k))].metadata

\* the chunks cut from the merged fragment at place k
ChunksOfFragment(k) ==
  SelectSeq(out1.chunks,
            LAMBDA c : Places(c.content) \subseteq Places(out1.merged_sections[k].page_content))

\* C25: a merged fragment of target_chunk_size tokens or fewer gives exactly
\* one chunk, whose content is the text of the fragment; a fragment over the
\* target gives sub-fragments, each with the heading path of the fragment
\* and the location of the section; no chunk comes from anything else.
C25_PassThroughOrSplit ==
  (Chunked /\ ~out1.raised) =>
    /\ \A k \in 1..Len(out1.merged_sections) :
         LET fragment == out1.merged_sections[k]
             mine == ChunksOfFragment(k)
         IN /\ mine # <<>>
            /\ \A i \in 1..Len(mine) :
                 mine[i].metadata = fragment.metadata /\ mine[i].location = doc.location
            /\ Measured(fragment.page_content) <= TargetChunkSize =>
                 [i \in 1..Len(mine) |-> mine[i].content] = <<fragment.page_content>>
    /\ \A i \in 1..Len(out1.chunks) :
         Cardinality({k \in 1..Len(out1.merged_sections) :
                        Places(out1.chunks[i].content)
                          \subseteq Places(out1.merged_sections[k].page_content)}) = 1

\* a fragment within the target gives one chunk, and a fragment over the
\* target with a heading path gives two chunks that have the path
C25_Witness ==
  /\ Chunked /\ ~out1.raised /\ Len(out1.merged_sections) = 2
  /\ Len(ChunksOfFragment(1)) = 1
  /\ Measured(out1.merged_sections[2].page_content) > TargetChunkSize
  /\ Len(ChunksOfFragment(2)) = 2
  /\ DOMAIN out1.merged_sections[2].metadata # {}
  /\ \A i \in 1..2 : ChunksOfFragment(2)[i].metadata = out1.merged_sections[2].metadata

\* ------------------------------------------------------------ the size split
Sized == dpc = "sized"

\* C26: no sub-fragment of a fragment over the target measures more than
\* target_chunk_size + chunk_overlap with the token counter in use, wherever
\* the separators stand in the fragment.
C26_SubFragmentBound ==
  (Sized /\ Measured(doc.fragment.page_content) > TargetChunkSize) =>
    \A i \in 1..Len(out1.chunks) :
      /\ out1.chunks[i].token_count = Measured(out1.chunks[i].content)
      /\ out1.chunks[i].token_count <= TargetChunkSize + ChunkOverlap

\* ------------------------------------------------------- embedding step
\* the tries of the batch that starts at i, in order
TriesOf(i) == SelectSeq(sent, LAMBDA call : call.at = i)
BatchStarts == {i \in 0..Len(embed_chunks) : i < Len(embed_chunks) /\ i % batch_size = 0}
\* a batch exhausted its retries: max_retries tries and none went through
Exhausted(i) ==
  /\ Len(TriesOf(i)) = max_retries
  /\ \A t \in 1..max_retries : TriesOf(i)[t].outcome # "embedded"

\* C29: generate_embeddings_batch accounts for every chunk exactly once:
\* whatever fails, no batch is tried more than max_retries times, and on
\* return processed + failed = total and failed_chunks holds exactly the ids
\* of the chunks of the batches that exhausted their retries.
C29_EveryChunkOnce ==
  /\ \A i \in BatchStarts : Len(TriesOf(i)) <= max_retries
  /\ epc = "returned" =>
       /\ processed + failed = Len(embed_chunks)
       /\ \A i \in BatchStarts :
            \A n \in 1..Len(BatchAt(embed_chunks, i, batch_size)) :
              LET id == BatchAt(embed_chunks, i, batch_size)[n].chunk_id
              IN  Exhausted(i) <=> (\E f \in 1..Len(failed_chunks) : failed_chunks[f] = id)
       /\ Len(failed_chunks) = failed

HadRecord(chunk_id) == FileName(chunk_id) \in DOMAIN embedded_before
RunWentThrough == epc \in {"returned", "done"}

\* C30: in a run of the embedding step with a client and chunks loaded, a
\* chunk whose chunk_id had a record under output/embedded_documents when
\* the run began is never sent and its record stays as it was, every other
\* chunk has been sent once the run is through, and when every chunk had a
\* record the run returns 0 and the embedding service was never called.
C30_ResumeByChunkId ==
  /\ \A i \in 1..Len(chunk_store) :
       LET id == chunk_store[i].chunk_id
       IN  /\ HadRecord(id) =>
                /\ \A c \in 1..Len(sent) : \A n \in 1..Len(sent[c].ids) : sent[c].ids[n] # id
                /\ FileName(id) \in DOMAIN embedded_store
                /\ embedded_store[FileName(id)] = embedded_before[FileName(id)]
           /\ (~HadRecord(id) /\ RunWentThrough) =>
                \E c \in 1..Len(sent) : \E n \in 1..Len(sent[c].ids) : sent[c].ids[n] = id
  /\ (/\ chunk_store # <<>>
      /\ \A i \in 1..Len(chunk_store) : HadRecord(chunk_store[i].chunk_id)) =>
       /\ sent = <<>>
       /\ epc \in {"main", "no client", "nothing left"}
       /\ epc = "nothing left" => exit_code = 0

\* a finished run over chunks of which one had a record and one had none
C30_Witness ==
  /\ epc = "done" /\ exit_code = 0 /\ sent # <<>>
  /\ \E i, j \in 1..Len(chunk_store) :
       HadRecord(chunk_store[i].chunk_id) /\ ~HadRecord(chunk_store[j].chunk_id)

====
